---- MODULE Spec2Model ----
(***************************************************************************)
(* Rate-limit coordinator of the session engine                            *)
(* (src/src/admin/rate-limit-manager.ts, class RateLimitManager) together  *)
(* with its callers in main.ts (src/unnamed/part_002), the command         *)
(* executors (src/src/worker/claude-executor.ts) and the worker registry   *)
(* of Admin as the callers and tests under src/ use it.                    *)
(*                                                                         *)
(* Every async method is cut at its awaits: one step of a task is the      *)
(* effect of the awaited load or save followed by the synchronous code up  *)
(* to the next load or save.  Awaits without an effect on the modelled     *)
(* state (audit log append, presence update) are folded into the step      *)
(* that follows them.                                                      *)
(***************************************************************************)
EXTENDS Integers, Sequences, FiniteSets, TLC

\* ------------------------------------------------------------------ bounds
NumChannels == 2
\* inbound events (messages, button presses, crashes) in one behaviour
MaxOps == 3
MaxTimers == 3
MaxTasks == 2
MaxTicks == 4
MaxRestarts == 1

\* ------------------------------------------------------- program constants
AUTO_RESUME_DELAY_MS == 300000

Channels == 1 .. NumChannels
\* the clock advances in steps of half the resume delay
TickMs == AUTO_RESUME_DELAY_MS \div 2
StartMs == TickMs
MaxNowMs == StartMs + MaxTicks * TickMs

\* ------------------------------------------------------------- worker state
\* WorkerState as persisted by WorkspaceManager.  ts = 0 stands for an
\* undefined rateLimitTimestamp (0 is falsy in every test the code makes);
\* auto is autoResumeAfterRateLimit: "on" (true), "off" (false), "unset".
NoState == [status |-> "none", ts |-> 0, auto |-> "unset", queue |-> << >>]
NewState == [status |-> "active", ts |-> 0, auto |-> "unset", queue |-> << >>]
NoTodo == << >>

VARIABLES
  ws,                \* persisted worker states, by channel
  timers,            \* setTimeout timers armed and not yet fired or cleared
  autoResumeTimers,  \* RateLimitManager.autoResumeTimers: channel -> timer id
  nextTimer,         \* next timer id handed out by setTimeout
  onAutoResumeMessage, \* the auto-resume callback is registered
  booted,            \* client.listen's callback has run in this process
  tasks,             \* async invocations in flight
  now,               \* Date.now(), milliseconds
  nextMsg,           \* next inbound message id
  restarts,          \* process restarts so far
  ops,               \* inbound events so far
  everQueued,        \* history: message ids queueMessage has persisted
  replayLog,         \* history: <<channel, message id>> handed to the callback
  atCrash,           \* history: message ids in the persisted queues at the last crash
  limitedSince,      \* history: saveRateLimitInfo returned with the rate limit
                     \* in place and executeAutoResume has not saved since
  disabledSince,     \* history: handleRateLimitAutoButton(ch, false) has saved
                     \* and no call that enables auto-resume has saved since
  workers,           \* Admin's registry: channel -> number of worker handles
  executing,         \* the worker's phase guard: channel -> id of the message
                     \* its invocation is running, 0 when the worker is Idle
  threadInfo,        \* persisted ThreadInfo.status, by channel
  reply,             \* what the last command (/start, /stop, close) reported
                     \* and for which channel
  noticed,           \* history: message ids answered with the rate-limit notice
  lastRun,           \* history: events of the last executeStreaming call
  lastEnd,           \* history: <<channel, outcome>> of the last invocation
                     \* that ended Completed, Cancelled or Failed
  planMode,          \* channel -> the plan-mode flag of its worker
  fault,             \* history: what failed in the last step that saves or
                     \* appends an audit entry ("none", "save", "audit")
  calls,             \* executeStreaming calls made so far, with their results
  parsing,           \* the stream of one invocation: "idle", "streaming",
                     \* "aborted" or "done"
  source,            \* the lines the subprocess writes to stdout
  input,             \* the bytes of source not yet delivered
  buffer,            \* the parser's carry-over buffer
  emitted,           \* the stream events parsed so far
  progress,          \* what the progress callback has been called with
  replies,           \* the final replies of the invocation
  environment,       \* the value of CLAUDE_CODE_MAX_OUTPUT_TOKENS
  config,            \* the WorkerConfiguration object
  tracker,           \* the TokenUsageTracker object
  clock,             \* the wall clock the tracker reads, in hours
  added,             \* history: the tokens added since the tracker last
                     \* reset its count
  compression,       \* the last compressSession call: its session and result
  clone,             \* the repository directory of the workspace and its remote
  ensured            \* the last ensureRepository call: its result

persisted == << ws, threadInfo >>
memory == << timers, autoResumeTimers, nextTimer, onAutoResumeMessage, booted, tasks >>
registry == << workers, executing >>
env == << now, nextMsg, restarts, ops >>
history == << everQueued, replayLog, atCrash, limitedSince, disabledSince >>
reports == << reply, noticed, lastRun, lastEnd >>
vars == << ws, timers, autoResumeTimers, nextTimer, onAutoResumeMessage, booted,
           tasks, now, nextMsg, restarts, ops, everQueued, replayLog,
           atCrash, limitedSince, disabledSince, workers, executing,
           threadInfo, reply, noticed, lastRun, lastEnd, planMode, fault,
           calls,
           parsing, source, input, buffer, emitted, progress, replies,
           environment, config, tracker, clock, added, compression,
           clone, ensured >>

\* the components that keep no state in common with the rate-limit handling
stream == << parsing, source, input, buffer, emitted, progress, replies >>

settings == << environment, config >>

meter == << tracker, clock, added >>

checkout == << clone, ensured >>

units == << calls, stream, settings, meter, compression, checkout >>

\* ------------------------------------------------------------------ helpers
Truthy(n) == n # 0

\* rateLimitTimestamp * 1000 + RATE_LIMIT.AUTO_RESUME_DELAY_MS
ResumeTime(rateLimitTimestamp) == rateLimitTimestamp * 1000 + AUTO_RESUME_DELAY_MS

Max(a, b) == IF a >= b THEN a ELSE b

\* Math.max(0, resumeTime - currentTime)
Delay(rateLimitTimestamp, currentTime) == Max(0, ResumeTime(rateLimitTimestamp) - currentTime)

\* the timestamp a rate-limit detection at the current time carries (seconds)
DetectedAt(currentTime) == currentTime \div 1000

\* isRateLimited: !!(workerState?.rateLimitTimestamp)
isRateLimited(ch) == ws[ch].status # "none" /\ Truthy(ws[ch].ts)

\* what a command handler posted: the command, its channel, the report, and
\* how many times in a row the command has now been given on the channel
Reply(cmd, ch, report) ==
  [cmd |-> cmd, ch |-> ch, report |-> report,
   nth |-> IF reply.cmd = cmd /\ reply.ch = ch THEN reply.nth + 1 ELSE 1]

\* A task: one async invocation.  own says that the worker it runs on, if
\* any, is still the registered worker of its channel.  kind says who
\* started it:
\*   "msg"     handleMessage -> admin.routeMessage
\*   "button"  handleRateLimitAutoButton
\*   "timer"   the setTimeout callback of scheduleAutoResume
\*   "restore" restoreRateLimitTimers
Task(kind, ch, pc) ==
  [kind |-> kind, ch |-> ch, pc |-> pc, ws |-> NoState, rws |-> NoState,
   qm |-> << >>, msg |-> 0, timer |-> 0, flag |-> FALSE, t |-> 0,
   todo |-> NoTodo, own |-> TRUE]

\* the tasks after x has taken a step and become y; a finished task is dropped
Keep(y) == IF y.pc = "done" THEN {} ELSE {y}
Replace(x, y) == (tasks \ {x}) \cup Keep(y)

\* a clearTimeout that drops every timer
ClearTimeoutWrong(tms, id) == {}

\* clearTimeout(id): the timer no longer fires; no effect on a fired timer
ClearTimeout(tms, id) == {tm \in tms : tm.id # id}

\* scheduleAutoResume (168-206): the timers armed after the call
ScheduledTimers(ch, rateLimitTimestamp) ==
  ClearTimeout(timers, autoResumeTimers[ch]) \cup
    {[id |-> nextTimer, ch |-> ch, fireAt |-> now + Delay(rateLimitTimestamp, now)]}

\* scheduleAutoResume (205): this.autoResumeTimers.set(threadId, timerId)
ScheduledMap(ch) == [autoResumeTimers EXCEPT ![ch] = nextTimer]

scheduleAutoResume(ch, rateLimitTimestamp) ==
  /\ nextTimer <= MaxTimers
  /\ timers' = ScheduledTimers(ch, rateLimitTimestamp)
  /\ autoResumeTimers' = ScheduledMap(ch)
  /\ nextTimer' = nextTimer + 1

\* ------------------------------------------------ returning from a call
\* executeAutoResume returns to its caller, at 219 ("e_skip") or at its end
\* ("e_ret"); the caller's continuation is a step of its own
ExecReturned(x, pc) ==
  [x EXCEPT !.pc = pc, !.ws = NoState, !.rws = NoState, !.qm = << >>,
            !.msg = 0, !.t = 0]

\* admin.routeMessage returns to its caller: handleMessage ends; the
\* auto-resume callback returns into executeAutoResume (255), which returns
RouteReturned(x) ==
  IF x.kind = "msg" THEN [x EXCEPT !.pc = "done"] ELSE ExecReturned(x, "e_ret")

\* x becomes y; nothing else in memory changes
Step(x, y) ==
  /\ tasks' = Replace(x, y)
  /\ UNCHANGED autoResumeTimers

\* ------------------------------------------------------------------- Init
Init ==
  /\ ws = [c \in Channels |-> NoState]
  /\ timers = {}
  /\ autoResumeTimers = [c \in Channels |-> 0]
  /\ nextTimer = 1
  /\ onAutoResumeMessage = FALSE
  /\ booted = FALSE
  /\ tasks = {}
  /\ now = StartMs
  /\ nextMsg = 1
  /\ restarts = 0
  /\ ops = 0
  /\ everQueued = {}
  /\ replayLog = << >>
  /\ atCrash = {}
  /\ limitedSince = [c \in Channels |-> FALSE]
  /\ disabledSince = [c \in Channels |-> FALSE]
  /\ workers = [c \in Channels |-> 0]
  /\ executing = [c \in Channels |-> 0]
  /\ threadInfo = [c \in Channels |-> "none"]
  /\ reply = [cmd |-> "none", ch |-> 0, report |-> "none", nth |-> 0]
  /\ noticed = {}
  /\ lastRun = << >>
  /\ lastEnd = << >>
  /\ planMode = [c \in Channels |-> FALSE]
  /\ fault = "none"
  /\ calls = << >>
  /\ parsing = "idle"
  /\ source = << >>
  /\ input = << >>
  /\ buffer = << >>
  /\ emitted = << >>
  /\ progress = << >>
  /\ replies = << >>
  /\ environment = [set |-> FALSE, value |-> << >>]
  /\ config = [made |-> FALSE, maxOutputTokens |-> 0, calls |-> 0,
               lastSet |-> [tokens |-> 0, before |-> 0]]
  /\ tracker = [made |-> FALSE, currentUsage |-> 0, lastResetTime |-> 0,
                uses |-> 0, last |-> "none"]
  /\ clock = 0
  /\ added = 0
  /\ compression = [called |-> FALSE, session |-> << >>, compressedContent |-> << >>,
                    originalTokens |-> 0, compressedTokens |-> 0,
                    compressionRatio |-> << 1, 1 >>, wasCompressed |-> FALSE]
  /\ clone = [exists |-> FALSE, branch |-> "main", tree |-> "clean",
              head |-> 0, origin |-> 0, remote |-> 0]
  /\ ensured = [called |-> FALSE, result |-> "none", wasUpdated |-> FALSE,
                before |-> "clean", after |-> "clean"]

\* ------------------------------------------------------------ environment
\* some rate limit is in place or some timer is armed: the clock matters
ClockObserved == timers # {} \/ \E c \in Channels : Truthy(ws[c].ts)

\* the clock; before the first rate limit only the origin of time would change
Tick ==
  /\ ClockObserved
  /\ now + TickMs <= MaxNowMs
  /\ now' = now + TickMs
  /\ UNCHANGED << persisted, memory, registry, nextMsg, restarts, ops,
                  history, reports >>
  /\ UNCHANGED << fault, planMode, units >>

\* the process dies: memory is lost, the store is kept
Crash ==
  /\ booted
  /\ restarts < MaxRestarts
  /\ ops < MaxOps
  /\ restarts' = restarts + 1
  /\ ops' = ops + 1
  /\ booted' = FALSE
  /\ onAutoResumeMessage' = FALSE
  /\ tasks' = {}
  /\ timers' = {}
  /\ autoResumeTimers' = [c \in Channels |-> 0]
  /\ workers' = [c \in Channels |-> 0]
  /\ executing' = [c \in Channels |-> 0]
  /\ atCrash' = UNION {{ws[c].queue[i] : i \in 1 .. Len(ws[c].queue)} : c \in Channels}
  /\ UNCHANGED << persisted, nextTimer, now, nextMsg, everQueued, replayLog,
                  limitedSince, disabledSince, reports >>
  /\ UNCHANGED << fault, planMode, units >>

\* ------------------------------------------------------ the worker registry
\* getWorker(ch) finds a worker
Registered(ch) == workers[ch] > 0

\* createWorker with the existence check left out
AlreadyExistsWrong(ch) == FALSE

\* createWorker: a channel that has a worker gets no second one
AlreadyExists(ch) == Registered(ch)

\* the registry with one more worker handle for the channel
Register(reg, ch) == [reg EXCEPT ![ch] = reg[ch] + 1]

\* handleStartCommand 425-431: what the command posts
StartReport(result) == IF result = "ok" THEN "created" ELSE result

\* /start (handleStartCommand 424-432): createWorker registers a worker,
\* setRepository persists its state and the thread info
CreateWorker(ch) ==
  /\ booted
  /\ ~AlreadyExists(ch)
  /\ workers' = Register(workers, ch)
  /\ ws' = [ws EXCEPT ![ch] = NewState]
  /\ threadInfo' = [threadInfo EXCEPT ![ch] = "active"]
  /\ reply' = Reply("start", ch, StartReport("ok"))
  /\ planMode' = [planMode EXCEPT ![ch] = FALSE]
  /\ UNCHANGED << memory, executing, env, history, noticed, lastRun, lastEnd >>
  /\ UNCHANGED << fault, units >>

\* --------------------------------------------- inbound messages, routing
\* a worker without the phase guard
BusyWrong(ch) == FALSE

\* the worker's phase guard: the worker has left Idle and not returned to it
Busy(ch) == executing[ch] # 0

\* the worker leaves Idle for the invocation of message id (Starting)
Started(phase, ch, id) == [phase EXCEPT ![ch] = id]

\* an invocation that ends and leaves the worker busy
EndedWrong(phase, ch, id) == phase

\* the invocation of message id has ended: its worker is back in Idle
Ended(phase, ch, id) ==
  IF phase[ch] = id THEN [phase EXCEPT ![ch] = 0] ELSE phase

\* routeMessage: no worker -> WORKER_NOT_FOUND; rate-limited -> queueMessage;
\* otherwise the worker's processMessage, which a busy worker refuses
RouteTarget(ch) ==
  IF ~Registered(ch) THEN "return"
  ELSE IF isRateLimited(ch) THEN "q_load"
  ELSE IF Busy(ch) THEN "return"
  ELSE "process"

\* DefaultClaudeCommandExecutor.executeStreaming (32-110): the events of one
\* call: spawn 71, the callback 74, Promise.all of status and
\* processStreams, ok 98; a throw, of spawn() included, ends in err 99-110
DefaultExecuteStreaming(spawned, onProcessStart) ==
  IF spawned
    THEN << "spawned" >>
         \o (IF onProcessStart THEN << "onProcessStart" >> ELSE << >>)
         \o << "processStreams", "ok" >>
    ELSE << "err" >>

\* an executor that hands out the callback before it spawns
DevcontainerExecuteStreamingWrong(spawned, onProcessStart) ==
  (IF onProcessStart THEN << "onProcessStart" >> ELSE << >>)
    \o (IF spawned THEN << "spawned", "processStreams", "ok" >> ELSE << "err" >>)

\* DevcontainerClaudeExecutor.executeStreaming (130-221): spawn 180, the
\* callback 183-185, Promise.all of status and processStreams, ok 209;
\* a throw, of spawn() included, ends in err 210-221
DevcontainerExecuteStreaming(spawned, onProcessStart) ==
  IF spawned
    THEN << "spawned" >>
         \o (IF onProcessStart THEN << "onProcessStart" >> ELSE << >>)
         \o << "processStreams", "ok" >>
    ELSE << "err" >>

\* the worker runs the executor its mode flag selects and passes the
\* callback that registers the process handle
ExecuteStreaming(executor, spawned) ==
  IF executor = "host" THEN DefaultExecuteStreaming(spawned, TRUE)
  ELSE DevcontainerExecuteStreaming(spawned, TRUE)

Executors == {"host", "devcontainer"}

\* routeMessage up to the start of the subprocess: a failed spawn ends the
\* invocation at once (Failed)
Routed(x, spawned) ==
  IF RouteTarget(x.ch) = "return" THEN RouteReturned(x)
  ELSE IF RouteTarget(x.ch) = "process" /\ ~spawned THEN RouteReturned(x)
  ELSE [x EXCEPT !.pc = RouteTarget(x.ch), !.own = TRUE]

\* the worker's phase after the invocation x has ended: a worker that is no
\* longer registered does not touch the phase of its successor
Returned(x) ==
  IF x.own THEN Ended(executing, x.ch, x.msg) ELSE executing

\* the worker's phase and the executor's events for that call
Dispatch(x, executor, spawned) ==
  /\ executing' =
       IF RouteTarget(x.ch) # "process" THEN executing
       ELSE IF spawned THEN Started(executing, x.ch, x.msg)
       ELSE Ended(Started(executing, x.ch, x.msg), x.ch, x.msg)
  /\ lastRun' =
       IF RouteTarget(x.ch) = "process" THEN ExecuteStreaming(executor, spawned)
       ELSE lastRun
  /\ lastEnd' =
       IF RouteTarget(x.ch) = "process" /\ ~spawned THEN << x.ch, "Failed" >>
       ELSE lastEnd

\* MESSAGE_CREATED -> handleMessage -> admin.routeMessage, up to the result of
\* isRateLimited; a message for a channel without worker changes nothing
HandleMessage(ch, executor, spawned) ==
  /\ booted
  /\ ops < MaxOps
  /\ Cardinality(tasks) < MaxTasks
  /\ Registered(ch)
  /\ tasks' = tasks \cup
       Keep(Routed([Task("msg", ch, "check") EXCEPT !.msg = nextMsg], spawned))
  /\ Dispatch([Task("msg", ch, "check") EXCEPT !.msg = nextMsg], executor, spawned)
  /\ nextMsg' = nextMsg + 1
  /\ ops' = ops + 1
  /\ UNCHANGED << persisted, timers, autoResumeTimers, nextTimer,
                  onAutoResumeMessage, booted, workers, now, restarts, history,
                  reply, noticed >>
  /\ UNCHANGED << fault, planMode, units >>

\* routeMessage called by the auto-resume callback: the result of isRateLimited
RouteCheck(x, executor, spawned) ==
  /\ x.pc = "check"
  /\ Step(x, Routed(x, spawned))
  /\ Dispatch(x, executor, spawned)
  /\ UNCHANGED << persisted, timers, nextTimer, onAutoResumeMessage, booted,
                  workers, env, history, reply, noticed >>
  /\ UNCHANGED << fault, planMode, units >>

\* queueMessage 406: loadWorkerState
QueueLoad(x) ==
  /\ x.pc = "q_load"
  /\ Step(x, IF ws[x.ch].status = "none" THEN RouteReturned(x)
             ELSE [x EXCEPT !.pc = "q_save", !.rws = ws[x.ch]])
  /\ noticed' = IF ws[x.ch].status = "none" THEN noticed \cup {x.msg} ELSE noticed
  /\ UNCHANGED << persisted, timers, nextTimer, onAutoResumeMessage, booted,
                  registry, env, history, reply, lastRun, lastEnd >>
  /\ UNCHANGED << fault, planMode, units >>

\* queueMessage 415-418: the record with the message pushed
Queued(loaded, m) == [loaded EXCEPT !.queue = Append(loaded.queue, m)]

\* queueMessage 419: saveWorkerState
QueueSave(x) ==
  /\ x.pc = "q_save"
  /\ ws' = [ws EXCEPT ![x.ch] = Queued(x.rws, x.msg)]
  /\ everQueued' = everQueued \cup {x.msg}
  /\ noticed' = noticed \cup {x.msg}
  /\ Step(x, RouteReturned(x))
  /\ UNCHANGED << timers, nextTimer, onAutoResumeMessage, booted, env,
                  replayLog, limitedSince, atCrash, disabledSince, registry,
                  threadInfo, reply, lastRun, lastEnd >>
  /\ UNCHANGED << fault, planMode, units >>

\* worker.processMessage ends without a rate limit
ProcessDone(x) ==
  /\ x.pc = "process"
  /\ Step(x, RouteReturned(x))
  /\ executing' = Returned(x)
  /\ lastEnd' = << x.ch, "Completed" >>
  /\ UNCHANGED << persisted, timers, nextTimer, onAutoResumeMessage, booted,
                  workers, env, history, reply, noticed, lastRun >>
  /\ UNCHANGED << fault, planMode, units >>

\* worker.processMessage reports a rate limit: saveRateLimitInfo is called
\* (57: loadWorkerState)
ProcessRateLimited(x) ==
  /\ x.pc = "process"
  /\ Step(x, IF ws[x.ch].status = "none" THEN RouteReturned(x)
             ELSE [x EXCEPT !.pc = "s_save", !.t = DetectedAt(now), !.rws = ws[x.ch]])
  /\ executing' = IF ws[x.ch].status = "none" THEN Returned(x)
                  ELSE executing
  /\ UNCHANGED << persisted, timers, nextTimer, onAutoResumeMessage, booted,
                  workers, env, history, reports >>
  /\ UNCHANGED << fault, planMode, units >>

\* --------------------------------------------------------- logAuditEntry
\* logAuditEntry with the catch of 454 left out
logAuditEntryWrong(appended) == IF appended THEN "returned" ELSE "thrown"

\* logAuditEntry 440-457: how the call ends when appendAuditLog succeeds
\* (appended) or throws; the throw is caught and logged (452-456)
logAuditEntry(appended) == "returned"

\* ------------------------------------------------------ saveRateLimitInfo
\* 59-61: the record with the rate limit set
Limited(loaded, timestamp) == [loaded EXCEPT !.ts = timestamp, !.auto = "on"]

\* 62-65: saveWorkerState, scheduleAutoResume; a saveWorkerState that throws
\* is caught at 78, past the scheduling
SaveRateLimitSave(x, saved) ==
  /\ x.pc = "s_save"
  /\ IF saved
       THEN /\ ws' = [ws EXCEPT ![x.ch] = Limited(x.rws, x.t)]
            /\ scheduleAutoResume(x.ch, x.t)
            /\ tasks' = Replace(x, [x EXCEPT !.pc = "s_ret", !.rws = NoState])
            /\ disabledSince' = [disabledSince EXCEPT ![x.ch] = FALSE]
       ELSE /\ tasks' = Replace(x, [x EXCEPT !.pc = "s_catch", !.rws = NoState])
            /\ UNCHANGED << ws, timers, autoResumeTimers, nextTimer,
                            disabledSince >>
  /\ fault' = IF saved THEN "none" ELSE "save"
  /\ UNCHANGED << onAutoResumeMessage, booted, env, everQueued, replayLog,
                  atCrash, limitedSince, registry, threadInfo, reports >>
  /\ UNCHANGED << planMode, units >>

\* 68-76: presence update, audit entry (not after the catch of 78);
\* saveRateLimitInfo returns, and routeMessage with it
SaveRateLimitReturn(x, appended) ==
  /\ x.pc \in {"s_ret", "s_catch"}
  /\ fault' = IF x.pc = "s_ret" /\ ~appended THEN "audit" ELSE "none"
  /\ limitedSince' = [limitedSince EXCEPT ![x.ch] = isRateLimited(x.ch)]
  /\ Step(x, RouteReturned(x))
  /\ executing' = Returned(x)
  /\ UNCHANGED << persisted, timers, nextTimer, onAutoResumeMessage, booted,
                  workers, env, everQueued, replayLog, atCrash, disabledSince,
                  reports >>
  /\ UNCHANGED << planMode, units >>

\* ---------------------------------------------- handleRateLimitAutoButton
\* 109-117: the call up to the result of loadWorkerState; without a
\* rate-limit timestamp the handler changes nothing
PressButton(ch, autoResume) ==
  /\ booted
  /\ ops < MaxOps
  /\ Cardinality(tasks) < MaxTasks
  /\ ws[ch].status # "none" /\ Truthy(ws[ch].ts)
  /\ ops' = ops + 1
  /\ tasks' = tasks \cup {[Task("button", ch, "b_save") EXCEPT
                             !.flag = autoResume, !.ws = ws[ch]]}
  /\ UNCHANGED << persisted, timers, autoResumeTimers, nextTimer,
                  onAutoResumeMessage, booted, registry, now, nextMsg, restarts,
                  history, reports >>
  /\ UNCHANGED << fault, planMode, units >>

\* 121 / 147: the record with the flag set
Flagged(loaded, autoResume) ==
  [loaded EXCEPT !.auto = IF autoResume THEN "on" ELSE "off"]

\* 122 / 148: saveWorkerState
ButtonSave(x) ==
  /\ x.pc = "b_save"
  /\ ws' = [ws EXCEPT ![x.ch] = Flagged(x.ws, x.flag)]
  /\ tasks' = Replace(x, [x EXCEPT !.pc = IF x.flag THEN "b_sched" ELSE "done"])
  /\ disabledSince' = [disabledSince EXCEPT ![x.ch] = ~x.flag]
  /\ UNCHANGED << timers, autoResumeTimers, nextTimer, onAutoResumeMessage,
                  booted, env, everQueued, replayLog, atCrash, limitedSince,
                  registry, threadInfo, reports >>
  /\ UNCHANGED << fault, planMode, units >>

\* 124-144: audit entry, then scheduleAutoResume with the loaded timestamp;
\* an audit entry that threw would end the handler in the catch of 159
ButtonSchedule(x, appended) ==
  /\ x.pc = "b_sched"
  /\ fault' = IF appended THEN "none" ELSE "audit"
  /\ IF logAuditEntry(appended) = "returned"
       THEN scheduleAutoResume(x.ch, x.ws.ts)
       ELSE UNCHANGED << timers, autoResumeTimers, nextTimer >>
  /\ tasks' = tasks \ {x}
  /\ UNCHANGED << persisted, onAutoResumeMessage, booted, registry, env,
                  history, reports >>
  /\ UNCHANGED << planMode, units >>

\* -------------------------------------------------------- executeAutoResume
\* 214: the early return
Cancelled(loaded) == loaded.status = "none" \/ loaded.auto # "on"

\* 213-220: executeAutoResume up to the result of loadWorkerState
ExecLoaded(x) ==
  IF Cancelled(ws[x.ch]) THEN ExecReturned(x, "e_skip")
  ELSE [x EXCEPT !.pc = "e_save1", !.ws = ws[x.ch]]

\* 228-229: the record with the rate-limit fields reset
Reset(loaded) == [loaded EXCEPT !.ts = 0, !.auto = "unset"]

\* 222-230: audit entry, reset, saveWorkerState; 236-237, 262-265: an empty
\* queue ends the call; an audit entry that threw would end it in the catch
\* of 266
ExecSave1(x, appended) ==
  /\ x.pc = "e_save1"
  /\ fault' = IF appended THEN "none" ELSE "audit"
  /\ IF logAuditEntry(appended) = "returned"
       THEN /\ ws' = [ws EXCEPT ![x.ch] = Reset(x.ws)]
            /\ limitedSince' = [limitedSince EXCEPT ![x.ch] = FALSE]
            /\ Step(x, IF Len(x.ws.queue) > 0
                         THEN [x EXCEPT !.pc = "e_save2", !.ws = Reset(x.ws)]
                         ELSE ExecReturned(x, "e_ret"))
       ELSE /\ UNCHANGED << ws, limitedSince >>
            /\ Step(x, ExecReturned(x, "e_ret"))
  /\ UNCHANGED << timers, nextTimer, onAutoResumeMessage, booted, env,
                  everQueued, replayLog, atCrash, disabledSince, registry,
                  threadInfo, reports >>
  /\ UNCHANGED << planMode, units >>

\* 239: workerState.queuedMessages = []
Emptied(loaded) == [loaded EXCEPT !.queue = << >>]

\* 251: const firstMessage = queuedMessages[0]
FirstMessage(queuedMessages) == Head(queuedMessages)

\* 252: the messages handed to the auto-resume callback
Replayed(log, ch, queuedMessages) ==
  Append(log, << ch, FirstMessage(queuedMessages) >>)

\* 233-252: presence update, the queue emptied, saveWorkerState, then the
\* first message handed to the callback, which calls admin.routeMessage
ExecSave2(x) ==
  /\ x.pc = "e_save2"
  /\ ws' = [ws EXCEPT ![x.ch] = Emptied(x.ws)]
  /\ limitedSince' = [limitedSince EXCEPT ![x.ch] = FALSE]
  /\ IF onAutoResumeMessage
       THEN /\ replayLog' = Replayed(replayLog, x.ch, x.ws.queue)
            /\ Step(x, [x EXCEPT !.pc = "check", !.ws = Emptied(x.ws),
                                 !.qm = x.ws.queue,
                                 !.msg = FirstMessage(x.ws.queue)])
       ELSE /\ UNCHANGED replayLog
            /\ Step(x, ExecReturned(x, "e_ret"))
  /\ UNCHANGED << timers, nextTimer, onAutoResumeMessage, booted, env,
                  everQueued, atCrash, disabledSince, registry, threadInfo,
                  reports >>
  /\ UNCHANGED << fault, planMode, units >>

\* ------------------------------------------------------------------ timers
Due(tm) == now >= tm.fireAt

\* a timer armed by scheduleAutoResume fires (191-203) and executeAutoResume
\* runs up to the result of loadWorkerState
TimerFire(tm) ==
  /\ Due(tm)
  /\ Cardinality(tasks) < MaxTasks
  /\ timers' = timers \ {tm}
  /\ tasks' = tasks \cup
       {ExecLoaded([Task("timer", tm.ch, "e_load") EXCEPT !.timer = tm.id])}
  /\ UNCHANGED << persisted, autoResumeTimers, nextTimer, onAutoResumeMessage,
                  booted, registry, env, history, reports >>
  /\ UNCHANGED << fault, planMode, units >>

\* 200-202: executeAutoResume has returned to the timer callback:
\* finally { this.autoResumeTimers.delete(threadId) }
TimerFinally(x) ==
  /\ x.kind = "timer"
  /\ x.pc \in {"e_skip", "e_ret"}
  /\ tasks' = tasks \ {x}
  /\ autoResumeTimers' = [autoResumeTimers EXCEPT ![x.ch] = 0]
  /\ UNCHANGED << persisted, timers, nextTimer, onAutoResumeMessage, booted,
                  registry, env, history, reports >>
  /\ UNCHANGED << fault, planMode, units >>

\* clearAutoResumeTimer (281-288)
ClearAutoResumeTimer(ch) ==
  /\ booted
  /\ Truthy(autoResumeTimers[ch])
  /\ timers' = ClearTimeout(timers, autoResumeTimers[ch])
  /\ autoResumeTimers' = [autoResumeTimers EXCEPT ![ch] = 0]
  /\ UNCHANGED << persisted, nextTimer, onAutoResumeMessage, booted, tasks,
                  registry, env, history, reports >>
  /\ UNCHANGED << fault, planMode, units >>

\* ----------------------------------------------- getCurrentRateLimitEndTime
\* 568: now < resumeTime
Unexpired(worker, currentTime) ==
  Truthy(worker.ts) /\ currentTime < ResumeTime(worker.ts)

\* the comparison of 569 reversed
LaterWrong(resumeTime, latestEndTime) ==
  ~Truthy(latestEndTime) \/ resumeTime < latestEndTime

\* 569: !latestEndTime || resumeTime > latestEndTime
Later(resumeTime, latestEndTime) ==
  ~Truthy(latestEndTime) \/ resumeTime > latestEndTime

\* 565-574: the loop over getAllWorkerStates, from state i on; 0 is null
RECURSIVE EndTimeLoop(_, _)
EndTimeLoop(i, latestEndTime) ==
  IF i > NumChannels THEN latestEndTime
  ELSE EndTimeLoop(i + 1,
         IF ws[i].status # "none" /\ Unexpired(ws[i], now)
              /\ Later(ResumeTime(ws[i].ts), latestEndTime)
           THEN ResumeTime(ws[i].ts)
           ELSE latestEndTime)

\* 560-577
getCurrentRateLimitEndTime == EndTimeLoop(1, 0)

\* ---------------------------------------------------- startup and restore
\* 298-303: the filter of restoreRateLimitTimers
Eligible(worker) ==
  worker.status = "active" /\ worker.auto = "on" /\ Truthy(worker.ts)

\* 297-303: getAllWorkerStates filtered, as channel and timestamp
RECURSIVE RateLimitWorkers(_)
RateLimitWorkers(n) ==
  IF n = 0 THEN << >>
  ELSE IF Eligible(ws[n])
         THEN Append(RateLimitWorkers(n - 1), [ch |-> n, ts |-> ws[n].ts])
         ELSE RateLimitWorkers(n - 1)

\* the comparison of 352 made strict
OverdueWrong(rateLimitTimestamp, currentTime) ==
  currentTime > ResumeTime(rateLimitTimestamp)

\* 352: currentTime >= resumeTime
Overdue(rateLimitTimestamp, currentTime) ==
  currentTime >= ResumeTime(rateLimitTimestamp)

\* a catch that lets the failure of one worker end the whole restore
LoopCatchWrong(x, todo) ==
  [x EXCEPT !.pc = "thrown", !.ch = Head(todo).ch, !.todo = todo, !.flag = TRUE]

\* 313-323: restoreRateLimitTimer threw: the catch inside the loop logs the
\* failure (flag) and the loop goes on
LoopCatch(x, todo) ==
  [x EXCEPT !.pc = "r_catch", !.ch = Head(todo).ch, !.todo = todo, !.flag = TRUE]

\* 310-312, 342-383: the next worker of the loop: an overdue resume is
\* executed at once (361), otherwise the timer is armed again (380);
\* thrown: restoreRateLimitTimer throws before either
RestoreLoop(x, todo, thrown) ==
  IF todo = << >>
    THEN /\ tasks' = tasks \ {x}
         /\ UNCHANGED << timers, autoResumeTimers, nextTimer >>
    ELSE IF thrown
      THEN /\ tasks' = Replace(x, LoopCatch(x, todo))
           /\ UNCHANGED << timers, autoResumeTimers, nextTimer >>
    ELSE IF Overdue(Head(todo).ts, now)
      THEN /\ tasks' = Replace(x, ExecLoaded([x EXCEPT !.ch = Head(todo).ch,
                                                       !.todo = todo]))
           /\ UNCHANGED << timers, autoResumeTimers, nextTimer >>
      ELSE /\ scheduleAutoResume(Head(todo).ch, Head(todo).ts)
           /\ tasks' = Replace(x, [x EXCEPT !.pc = "r_audit", !.ch = Head(todo).ch,
                                            !.todo = todo])

\* restoreActiveThreads: a worker handle for every thread persisted as active
Restored == [c \in Channels |-> IF threadInfo[c] = "active" THEN 1 ELSE 0]

\* a startup that leaves the registration for later
setAutoResumeCallbackWrong == onAutoResumeMessage

\* main.ts 169: admin.setAutoResumeCallback(...), the first call of the
\* listen callback: the callback is registered
setAutoResumeCallback == TRUE

\* 297, 328-336: the workers getAllWorkerStates returned; when it throws the
\* outer catch logs and restoreRateLimitTimers returns
Listed(listed) == IF listed THEN RateLimitWorkers(NumChannels) ELSE << >>

\* what a step of the restore loop over todo failed at
LoopFault(todo, thrown) == IF todo # << >> /\ thrown THEN "restore" ELSE "none"

\* client.listen's callback (main.ts 165-246): the auto-resume callback is
\* registered, then restoreActiveThreads starts, which runs
\* restoreRateLimitTimers up to the first worker of its loop
Listen(listed, thrown) ==
  /\ ~booted
  /\ booted' = TRUE
  /\ onAutoResumeMessage' = setAutoResumeCallback
  /\ workers' = Restored
  /\ RestoreLoop(Task("restore", 0, "r_list"), Listed(listed), thrown)
  /\ fault' = IF listed THEN LoopFault(Listed(listed), thrown) ELSE "list"
  /\ UNCHANGED << persisted, executing, env, history, reports >>
  /\ UNCHANGED << planMode, units >>

\* 363 / 385: executeAutoResume has returned, or the timer is armed: the
\* audit entry of restoreRateLimitTimer, then the next worker
RestoreAudit(x, appended, thrown) ==
  /\ x.kind = "restore"
  /\ fault' = IF Tail(x.todo) # << >> /\ thrown THEN "restore"
              ELSE IF appended THEN "none" ELSE "audit"
  /\ x.pc \in {"e_skip", "e_ret", "r_audit"}
  /\ RestoreLoop(x, Tail(x.todo), thrown)
  /\ UNCHANGED << persisted, onAutoResumeMessage, booted, registry, env,
                  history, reports >>
  /\ UNCHANGED << planMode, units >>

\* 313-323: the failure of a worker has been logged: the next worker
RestoreCatch(x, thrown) ==
  /\ x.kind = "restore"
  /\ x.pc = "r_catch"
  /\ fault' = IF Tail(x.todo) # << >> /\ thrown THEN "restore" ELSE "none"
  /\ RestoreLoop(x, Tail(x.todo), thrown)
  /\ UNCHANGED << persisted, onAutoResumeMessage, booted, registry, env,
                  history, reports >>
  /\ UNCHANGED << planMode, units >>

\* ------------------------------------------------------------------- Next
\* ------------------------------------------------------ lifecycle commands
\* /start on a channel that has a worker (handleStartCommand 424-431):
\* createWorker fails, the error is posted and the handler returns
CreateWorkerAgain(ch) ==
  /\ booted
  /\ ops < MaxOps
  /\ AlreadyExists(ch)
  /\ reply' = Reply("start", ch, StartReport("ALREADY_EXISTS"))
  /\ ops' = ops + 1
  /\ UNCHANGED << persisted, memory, registry, now, nextMsg, restarts, history,
                  noticed, lastRun, lastEnd >>
  /\ UNCHANGED << fault, planMode, units >>

\* the invocations of the channel whose subprocess is streaming
Streaming(ch) == {y \in tasks : y.ch = ch /\ y.pc = "process"}

\* the subprocess is aborted: processMessage returns to its caller
CancelStreaming(ch) ==
  (tasks \ Streaming(ch)) \cup UNION {Keep(RouteReturned(y)) : y \in Streaming(ch)}

\* the calls after the worker of the channel has been removed: those that
\* run on go on without a registered worker
Detached(ts, ch) == {[y EXCEPT !.own = (y.own /\ y.ch # ch)] : y \in ts}

\* the outcome recorded when a cancellation found a streaming invocation
CancelOutcome(ch) ==
  IF Streaming(ch) # {} THEN << ch, "Cancelled" >> ELSE lastEnd

\* terminateThread that insists on a worker
TerminateResultWrong(ch) == IF Registered(ch) THEN "ok" ELSE "WORKER_NOT_FOUND"

\* terminateThread reports success with or without a worker
TerminateResult(ch) == "ok"

\* a close that leaves the registration in place
UnregisterWrong(reg, ch) == reg

\* the registry with the channel's worker removed
Unregister(reg, ch) == [reg EXCEPT ![ch] = 0]

\* the thread info after the close
Archived(info, ch) == [info EXCEPT ![ch] = "archived"]

\* terminateThread / closeThread: cancels the in-flight execution, clears the
\* timer (clearAutoResumeTimer 281-288), archives the persisted session and
\* removes the registration; without a worker there is nothing to do
Terminate(ch) ==
  /\ booted
  /\ ops < MaxOps
  /\ ops' = ops + 1
  /\ reply' = Reply("close", ch, TerminateResult(ch))
  /\ IF Registered(ch)
       THEN /\ tasks' = Detached(CancelStreaming(ch), ch)
            /\ executing' = Ended(executing, ch, executing[ch])
            /\ lastEnd' = CancelOutcome(ch)
            /\ timers' = IF Truthy(autoResumeTimers[ch])
                            THEN ClearTimeout(timers, autoResumeTimers[ch])
                            ELSE timers
            /\ autoResumeTimers' = [autoResumeTimers EXCEPT ![ch] = 0]
            /\ ws' = [ws EXCEPT ![ch].status = "archived"]
            /\ threadInfo' = Archived(threadInfo, ch)
            /\ workers' = Unregister(workers, ch)
       ELSE UNCHANGED << tasks, executing, lastEnd, timers, autoResumeTimers,
                         ws, threadInfo, workers >>
  /\ UNCHANGED << nextTimer, onAutoResumeMessage, booted, now, nextMsg,
                  restarts, history, noticed, lastRun >>
  /\ UNCHANGED << fault, planMode, units >>

\* stopExecution: WORKER_NOT_FOUND without a worker; a worker that is not
\* streaming has nothing to cancel, which is not an error
StopResult(ch) == IF Registered(ch) THEN "ok" ELSE "WORKER_NOT_FOUND"

\* handleStopCommand 614-640: the message posted for the result
StopReport(result) ==
  IF result = "ok" THEN "interrupted"
  ELSE IF result = "WORKER_NOT_FOUND" THEN "stop_failed"
  ELSE "stop_error"

\* /stop (handleStopCommand 612-646)
Stop(ch) ==
  /\ booted
  /\ ops < MaxOps
  /\ ops' = ops + 1
  /\ reply' = Reply("stop", ch, StopReport(StopResult(ch)))
  /\ IF Registered(ch) /\ Streaming(ch) # {}
       THEN /\ tasks' = CancelStreaming(ch)
            /\ executing' = Ended(executing, ch, executing[ch])
            /\ lastEnd' = CancelOutcome(ch)
       ELSE UNCHANGED << tasks, executing, lastEnd >>
  /\ UNCHANGED << persisted, timers, autoResumeTimers, nextTimer,
                  onAutoResumeMessage, booted, workers, now, nextMsg, restarts,
                  history, noticed, lastRun >>
  /\ UNCHANGED << fault, planMode, units >>

Next ==
  \/ Tick
  \/ Crash
  \/ Listen(TRUE, FALSE)
  \/ \E ch \in Channels : CreateWorker(ch)
  \/ \E ch \in Channels : HandleMessage(ch, "host", TRUE)
  \/ \E ch \in Channels, autoResume \in BOOLEAN : PressButton(ch, autoResume)
  \/ \E ch \in Channels : ClearAutoResumeTimer(ch)
  \/ \E tm \in timers : TimerFire(tm)
  \/ \E x \in tasks : TimerFinally(x)
  \/ \E x \in tasks : RouteCheck(x, "host", TRUE)
  \/ \E x \in tasks : QueueLoad(x)
  \/ \E x \in tasks : QueueSave(x)
  \/ \E x \in tasks : ProcessDone(x)
  \/ \E x \in tasks : ProcessRateLimited(x)
  \/ \E x \in tasks : SaveRateLimitSave(x, TRUE)
  \/ \E x \in tasks : SaveRateLimitReturn(x, TRUE)
  \/ \E x \in tasks : ButtonSave(x)
  \/ \E x \in tasks : ButtonSchedule(x, TRUE)
  \/ \E x \in tasks : ExecSave1(x, TRUE)
  \/ \E x \in tasks : ExecSave2(x)
  \/ \E x \in tasks : RestoreAudit(x, TRUE, FALSE)

Spec == Init /\ [][Next]_vars

\* the same program with the lifecycle commands and subprocesses that may
\* fail to start, under either executor
NextAdmin ==
  \/ Tick
  \/ Crash
  \/ Listen(TRUE, FALSE)
  \/ \E ch \in Channels : CreateWorker(ch)
  \/ \E ch \in Channels : CreateWorkerAgain(ch)
  \/ \E ch \in Channels : Terminate(ch)
  \/ \E ch \in Channels : Stop(ch)
  \/ \E ch \in Channels, executor \in Executors, spawned \in BOOLEAN :
       HandleMessage(ch, executor, spawned)
  \/ \E ch \in Channels, autoResume \in BOOLEAN : PressButton(ch, autoResume)
  \/ \E ch \in Channels : ClearAutoResumeTimer(ch)
  \/ \E tm \in timers : TimerFire(tm)
  \/ \E x \in tasks : TimerFinally(x)
  \/ \E x \in tasks, executor \in Executors, spawned \in BOOLEAN :
       RouteCheck(x, executor, spawned)
  \/ \E x \in tasks : QueueLoad(x)
  \/ \E x \in tasks : QueueSave(x)
  \/ \E x \in tasks : ProcessDone(x)
  \/ \E x \in tasks : ProcessRateLimited(x)
  \/ \E x \in tasks : SaveRateLimitSave(x, TRUE)
  \/ \E x \in tasks : SaveRateLimitReturn(x, TRUE)
  \/ \E x \in tasks : ButtonSave(x)
  \/ \E x \in tasks : ButtonSchedule(x, TRUE)
  \/ \E x \in tasks : ExecSave1(x, TRUE)
  \/ \E x \in tasks : ExecSave2(x)
  \/ \E x \in tasks : RestoreAudit(x, TRUE, FALSE)

SpecAdmin == Init /\ [][NextAdmin]_vars

\* ------------------------------------------------------------ observations
\* the message ids handed to the auto-resume callback so far
ReplayedIds == {replayLog[i][2] : i \in 1 .. Len(replayLog)}

\* the message ids in the persisted queue of a channel
QueuedIds(ch) == {ws[ch].queue[i] : i \in 1 .. Len(ws[ch].queue)}

\* the timers armed for a channel
PendingTimers(ch) == {tm \in timers : tm.ch = ch}

\* startup has finished and no invocation is in flight
Settled == booted /\ tasks = {}

\* x is the task that takes the step
Steps(x) == x \in tasks /\ x \notin tasks'

\* --------------------------------------------------------------------- C1
\* C1: when executeAutoResume finds n >= 1 queued messages it hands exactly
\* the oldest one to the callback and the other n-1 stay in the persisted
\* queue of the channel, in order.
C1_OldestReplayedRestKept ==
  [][\A x \in tasks :
       (Steps(x) /\ x.pc = "e_save2" /\ replayLog' # replayLog) =>
         /\ replayLog' = Append(replayLog, << x.ch, Head(x.ws.queue) >>)
         /\ ws'[x.ch].queue = Tail(x.ws.queue)]_vars

\* --------------------------------------------------------------------- C2
\* C2: after a restart whose restore has finished, every message that was
\* in a persisted queue when the process died either has been handed to the
\* callback or is still in the persisted queue of a channel that is still
\* rate-limited.
C2_NoQueuedWorkLostByRestart ==
  (restarts > 0 /\ Settled) =>
    \A m \in atCrash \ ReplayedIds :
      \E ch \in Channels : isRateLimited(ch) /\ m \in QueuedIds(ch)

\* --------------------------------------------------------------------- C3
\* C3: once saveRateLimitInfo(ch, t) has returned, isRateLimited(ch) holds
\* until executeAutoResume(ch) saves.
C3_LimitedUntilResume ==
  \A ch \in Channels : limitedSince[ch] => isRateLimited(ch)

\* --------------------------------------------------------------------- C4
\* the channels whose persisted rate limit has not expired
UnexpiredChannels == {c \in Channels : Unexpired(ws[c], now)}

RestoreAdvances ==
  \/ ~booted /\ booted'
  \/ \E x \in tasks : /\ Steps(x) /\ booted'
                      /\ x.kind = "restore"
                      /\ x.pc \in {"e_skip", "e_ret", "r_audit"}

\* C5: when restoreRateLimitTimers comes to a worker whose resume time
\* t + 5 minutes has passed, it arms no timer but runs executeAutoResume
\* inside the restore call, which resets the rate-limit fields and hands the
\* oldest queued message to the callback.
C5_OverdueResumedInRestore ==
  [][/\ \A y \in tasks' :
          ( /\ RestoreAdvances
            /\ y.kind = "restore"
            /\ now >= Head(y.todo).ts * 1000 + 300000 ) =>
              /\ timers' = timers
              /\ y.ch = Head(y.todo).ch
              /\ \/ y.pc = "e_save1"
                 \/ y.pc = "e_skip" /\ ws[y.ch].auto # "on"
     /\ \A x \in tasks :
          (Steps(x) /\ booted' /\ x.kind = "restore" /\ x.pc = "e_save1") =>
              ~isRateLimited(x.ch)' /\ ws'[x.ch].auto = "unset"
     /\ \A x \in tasks :
          (Steps(x) /\ booted' /\ x.kind = "restore" /\ x.pc = "e_save2") =>
              replayLog' = Append(replayLog, << x.ch, Head(x.ws.queue) >>)
    ]_vars

\* restore has handed a queued message to the callback in the restore call
C5_Witness ==
  \E x \in tasks :
    /\ x.kind = "restore"
    /\ x.pc = "check"
    /\ restarts > 0
    /\ x.msg \in atCrash
    /\ ~isRateLimited(x.ch)
    /\ PendingTimers(x.ch) = {}

\* --------------------------------------------------------------------- C6
\* C6: at most one auto-resume timer is armed per channel.
C6_OneTimerPerChannel ==
  \A ch \in Channels : Cardinality(PendingTimers(ch)) <= 1

\* --------------------------------------------------------------------- C7
\* C7: in every persisted worker state the queue is non-empty only if the
\* rate-limit timestamp is set.
C7_QueueOnlyWhileLimited ==
  \A ch \in Channels : Len(ws[ch].queue) > 0 => Truthy(ws[ch].ts)

\* --------------------------------------------------------------------- C8
\* the record a task loaded and is about to save
Loaded(x) == IF x.pc \in {"q_save", "s_save"} THEN x.rws ELSE x.ws

\* C8: every save of a worker state writes a record that was loaded after
\* the last save of that record: the persisted record still is the one the
\* saving task loaded (or last saved itself).
C8_AtomicReadModifyWrite ==
  [][\A x \in tasks :
       (Steps(x) /\ x.ch \in Channels /\ ws'[x.ch] # ws[x.ch]) =>
         Loaded(x) = ws[x.ch]]_vars

\* --------------------------------------------------------------------- C9
\* the program left to itself: no crash, no button, no /stop
NextAuto ==
  \/ Tick
  \/ Listen(TRUE, FALSE)
  \/ \E ch \in Channels : CreateWorker(ch)
  \/ \E ch \in Channels : HandleMessage(ch, "host", TRUE)
  \/ \E tm \in timers : TimerFire(tm)
  \/ \E x \in tasks :
       \/ TimerFinally(x)
       \/ RouteCheck(x, "host", TRUE)
       \/ QueueLoad(x)
       \/ QueueSave(x)
       \/ ProcessDone(x)
       \/ ProcessRateLimited(x)
       \/ SaveRateLimitSave(x, TRUE)
       \/ SaveRateLimitReturn(x, TRUE)
       \/ ExecSave1(x, TRUE)
       \/ ExecSave2(x)

SpecAuto == Init /\ [][NextAuto]_vars

\* C9: every message queued while the channel is rate-limited with
\* auto-resume enabled is eventually processed without manual intervention;
\* on finite runs: once no call is in flight and no timer is armed, every
\* message queueMessage persisted has been handed to the callback.
C9_QueuedEventuallyProcessed ==
  (booted /\ tasks = {} /\ timers = {}) => everQueued \subseteq ReplayedIds

\* -------------------------------------------------------------------- C10
\* C10: an executeAutoResume that starts after handleRateLimitAutoButton(ch,
\* false) has completed takes the early return, and the early return changes
\* no persisted state and replays nothing.
C10_DisabledResumeIsNoOp ==
  [][/\ \A y \in tasks' \ tasks :
          (y.pc \in {"e_save1", "e_skip"} /\ disabledSince[y.ch]) =>
            y.pc = "e_skip"
     /\ \A x \in tasks :
          (Steps(x) /\ x.pc = "e_skip") => ws' = ws /\ replayLog' = replayLog
    ]_vars

\* -------------------------------------------------------------------- C11
\* C11: while isRateLimited(ch) holds, a message routed to ch is appended to
\* the tail of ch's persisted queue, no subprocess is started for it, and the
\* call returns the rate-limit notice.  Stated on the step in which
\* queueMessage saves (419) while the channel is still rate-limited.
C11_LimitedMessageQueuedAtTail ==
  [][\A x \in tasks :
       (x.pc = "q_save" /\ Steps(x) /\ booted' /\ isRateLimited(x.ch)) =>
         /\ ws'[x.ch].queue = Append(ws[x.ch].queue, x.msg)
         /\ x.msg \in noticed'
         /\ \A y \in tasks' : y.msg = x.msg => y.pc # "process"
    ]_vars

\* -------------------------------------------------------------------- C12
\* the step is a /start on ch: its report appears
StartStep(ch) ==
  /\ reply'.cmd = "start"
  /\ reply'.ch = ch
  /\ reply' # reply

\* C12: a second createWorker on a channel that has a registered worker
\* fails with the already-exists error and registers nothing (registry and
\* persisted state unchanged); no channel ever has two live workers.
C12_SecondCreateFails ==
  [][\A ch \in Channels :
       /\ workers'[ch] <= 1
       /\ (Registered(ch) /\ StartStep(ch)) =>
            /\ reply'.report = "ALREADY_EXISTS"
            /\ workers' = workers
            /\ ws' = ws
            /\ threadInfo' = threadInfo
    ]_vars

\* a /start was refused on a channel that keeps its one worker
C12_Witness ==
  \E ch \in Channels :
    /\ reply.cmd = "start" /\ reply.ch = ch /\ reply.report = "ALREADY_EXISTS"
    /\ workers[ch] = 1

\* -------------------------------------------------------------------- C13
\* the step is a terminateThread / closeThread on ch
CloseStep(ch) ==
  /\ reply'.cmd = "close"
  /\ reply'.ch = ch
  /\ reply' # reply

\* C13: terminateThread / closeThread on a channel without a registered
\* worker returns success, and so does a repeated call after a successful
\* termination; such a call changes nothing.
C13_TerminateIdempotent ==
  [][\A ch \in Channels :
       (CloseStep(ch) /\ ~Registered(ch)) =>
         /\ reply'.report = "ok"
         /\ UNCHANGED << persisted, timers, autoResumeTimers, tasks, registry >>
    ]_vars

\* the worker of a channel was terminated and the call repeated
C13_Witness ==
  \E ch \in Channels :
    /\ reply.cmd = "close" /\ reply.ch = ch /\ reply.report = "ok"
    /\ reply.nth = 2
    /\ threadInfo[ch] = "archived"

\* -------------------------------------------------------------------- C14
\* C14: after closeThread / terminateThread on a channel with a worker,
\* getWorker fails with WORKER_NOT_FOUND and the persisted thread info of the
\* channel is kept with status archived.
C14_ClosedIsArchivedAndUnregistered ==
  [][\A ch \in Channels :
       (CloseStep(ch) /\ Registered(ch)) =>
         /\ ~Registered(ch)'
         /\ threadInfo'[ch] = "archived"
    ]_vars

\* a first close of a channel whose worker had been created
C14_Witness ==
  \E ch \in Channels :
    /\ reply.cmd = "close" /\ reply.ch = ch /\ reply.nth = 1
    /\ threadInfo[ch] = "archived"
    /\ workers[ch] = 0

\* -------------------------------------------------------------------- C15
\* C15: after terminateThread(ch) completes, no auto-resume timer is pending
\* for ch (so none can fire later and clear the rate-limit state or replay a
\* queued message), also when the rate limit was entered again during an
\* earlier auto-resume replay.  Stated for a terminateThread that finds no
\* call of the channel in flight.
C15_NoTimerAfterTerminate ==
  [][\A ch \in Channels :
       (CloseStep(ch) /\ Registered(ch) /\ \A y \in tasks : y.ch # ch) =>
         PendingTimers(ch)' = {}
    ]_vars

Acting ==
  {x.ch : x \in tasks \ tasks'} \cup {y.ch : y \in tasks' \ tasks}
    \cup (IF reply' # reply THEN {reply'.ch} ELSE {})
    \cup {c \in Channels : autoResumeTimers'[c] # autoResumeTimers[c]}

\* C17: an operation on one channel (routeMessage, queueMessage,
\* saveRateLimitInfo, handleRateLimitAutoButton, executeAutoResume,
\* clearAutoResumeTimer, terminateThread) leaves the persisted worker state,
\* the queue, the thread info and the pending timers of every other channel
\* unchanged.  A process exit, which drops every timer, is no such operation.
C17_OtherChannelsUntouched ==
  [][booted' =>
       \A other \in Channels \ Acting :
         /\ ws'[other] = ws[other]
         /\ threadInfo'[other] = threadInfo[other]
         /\ PendingTimers(other)' = PendingTimers(other)
    ]_vars

\* both channels are rate-limited with a timer pending, one has a queue
C17_Witness ==
  \E a, b \in Channels :
    /\ a # b
    /\ PendingTimers(a) # {} /\ PendingTimers(b) # {}
    /\ Len(ws[a].queue) > 0
    /\ Truthy(ws[b].ts)

\* -------------------------------------------------------------------- C18
\* the step is a /stop on ch
StopStep(ch) ==
  /\ reply'.cmd = "stop"
  /\ reply'.ch = ch
  /\ reply' # reply

\* C18: a /stop for a channel whose worker is not streaming (idle,
\* rate-limited or already finished) changes no state and is reported as
\* "nothing to cancel", not as an error and not as an interruption.
C18_StopWhenNotStreaming ==
  [][\A ch \in Channels :
       (StopStep(ch) /\ Registered(ch) /\ Streaming(ch) = {}) =>
         /\ UNCHANGED << persisted, timers, autoResumeTimers, tasks, registry >>
         /\ reply'.report = "nothing_to_cancel"
    ]_vars

\* -------------------------------------------------------------------- C19
\* the invocation of the channel that has started and not yet returned
InFlight(ch) ==
  {y \in tasks : y.ch = ch /\ y.own /\ y.msg = executing[ch]
                   /\ y.pc \in {"process", "s_save", "s_ret", "s_catch"}}

\* C19: after an invocation has ended as Completed, Cancelled or Failed
\* (spawn failure included) the worker is back in Idle, so that the next
\* message routed to the channel is processed: a worker is busy only while
\* its invocation is in flight.
C19_IdleAfterTerminalOutcome ==
  \A ch \in Channels : Busy(ch) => InFlight(ch) # {}

\* a message is being processed on a channel whose previous invocation was
\* cancelled or failed
C19_Witness ==
  \E ch \in Channels :
    /\ lastEnd \in {<< ch, "Cancelled" >>, << ch, "Failed" >>}
    /\ Registered(ch)
    /\ \E y \in Streaming(ch) : y.msg = 2

\* -------------------------------------------------------------------- C20
\* the positions of an event in the record of an executeStreaming call
Positions(events, e) == {i \in 1 .. Len(events) : events[i] = e}

\* C20: executeStreaming, of the host and of the devcontainer executor,
\* calls onProcessStart at most once per invocation and only after the
\* subprocess has been spawned; when the spawn fails it never calls it.
C20_OnProcessStartAfterSpawn ==
  /\ Cardinality(Positions(lastRun, "onProcessStart")) <= 1
  /\ \A i \in Positions(lastRun, "onProcessStart") :
       \E j \in Positions(lastRun, "spawned") : j < i
  /\ Positions(lastRun, "spawned") = {} =>
       Positions(lastRun, "onProcessStart") = {}

\* the last call could not spawn its subprocess and reported the error
C20_Witness ==
  /\ lastRun # << >>
  /\ Positions(lastRun, "spawned") = {}
  /\ lastRun[Len(lastRun)] = "err"
  /\ lastEnd # << >> /\ lastEnd[2] = "Failed"

\* ----------------------------------------------------------------- faults
\* the rate-limit handling with a store whose saveWorkerState may throw in
\* saveRateLimitInfo and an audit log whose appendAuditLog may throw
NextFaults ==
  \/ Tick
  \/ Crash
  \/ Listen(TRUE, FALSE)
  \/ \E ch \in Channels : CreateWorker(ch)
  \/ \E ch \in Channels : HandleMessage(ch, "host", TRUE)
  \/ \E ch \in Channels, autoResume \in BOOLEAN : PressButton(ch, autoResume)
  \/ \E ch \in Channels : ClearAutoResumeTimer(ch)
  \/ \E tm \in timers : TimerFire(tm)
  \/ \E x \in tasks : TimerFinally(x)
  \/ \E x \in tasks : RouteCheck(x, "host", TRUE)
  \/ \E x \in tasks : QueueLoad(x)
  \/ \E x \in tasks : QueueSave(x)
  \/ \E x \in tasks : ProcessDone(x)
  \/ \E x \in tasks : ProcessRateLimited(x)
  \/ \E x \in tasks, saved \in BOOLEAN : SaveRateLimitSave(x, saved)
  \/ \E x \in tasks, appended \in BOOLEAN : SaveRateLimitReturn(x, appended)
  \/ \E x \in tasks : ButtonSave(x)
  \/ \E x \in tasks, appended \in BOOLEAN : ButtonSchedule(x, appended)
  \/ \E x \in tasks, appended \in BOOLEAN : ExecSave1(x, appended)
  \/ \E x \in tasks : ExecSave2(x)
  \/ \E x \in tasks, appended \in BOOLEAN : RestoreAudit(x, appended, FALSE)

SpecFaults == Init /\ [][NextFaults]_vars

\* -------------------------------------------------------------------- C23
\* C23: if saveWorkerState fails inside saveRateLimitInfo(ch, t), the call
\* still schedules the auto-resume timer of ch and returns normally: the
\* step of saveRateLimitInfo whose save threw arms a new timer for ch and
\* leaves the call on its way back to routeMessage.
C23_TimerScheduledWhenSaveFails ==
  [][\A x \in tasks :
       (Steps(x) /\ x.pc = "s_save" /\ booted' /\ fault' = "save"
          /\ nextTimer <= MaxTimers) =>
         /\ [x EXCEPT !.pc = "s_catch", !.rws = NoState] \in tasks'
         /\ timers' = ScheduledTimers(x.ch, x.t)
         /\ autoResumeTimers' = ScheduledMap(x.ch)]_vars

\* -------------------------------------------------------------------- C24
\* C24: a failure of the audit log append is swallowed: every step of
\* saveRateLimitInfo, handleRateLimitAutoButton, executeAutoResume and the
\* restore path whose audit entry could not be appended changes the
\* persisted worker states, the timers and the tasks exactly as the same
\* step with a successful append: the button handler arms its timer,
\* executeAutoResume saves the reset state and goes on to the replay, and the
\* restore loop goes on to the next worker.
C24_AuditFailureSwallowed ==
  [][\A x \in tasks :
       (Steps(x) /\ booted' /\ fault' = "audit") =>
         /\ x.pc = "s_ret" =>
              UNCHANGED << persisted, timers, autoResumeTimers, replayLog >>
         /\ x.pc = "b_sched" =>
              /\ timers' = ScheduledTimers(x.ch, x.ws.ts)
              /\ autoResumeTimers' = ScheduledMap(x.ch)
              /\ UNCHANGED << persisted, replayLog >>
         /\ x.pc = "e_save1" =>
              /\ ws' = [ws EXCEPT ![x.ch] = Reset(x.ws)]
              /\ Len(x.ws.queue) > 0 =>
                   [x EXCEPT !.pc = "e_save2", !.ws = Reset(x.ws)] \in tasks'
              /\ UNCHANGED << timers, replayLog >>
         /\ (x.kind = "restore" /\ x.pc \in {"e_skip", "e_ret", "r_audit"}) =>
              UNCHANGED << persisted, replayLog >>]_vars

\* executeAutoResume has saved the reset state and is about to replay the
\* queue although its audit entry could not be appended
C24_Witness ==
  /\ fault = "audit"
  /\ \E x \in tasks :
       /\ x.pc = "e_save2"
       /\ ws[x.ch] = x.ws
       /\ x.ws.ts = 0

\* ------------------------------------------------ executeStreaming results
MaxCalls == 3

\* the errors a call may meet: spawn() or the awaited Promise.all throws one
\* of them; AbortError is what the abort signal raises
Errors ==
  { [name |-> "NotFound", message |-> "Failed to spawn"],
    [name |-> "Interrupted", message |-> "stream read failed"],
    [name |-> "AbortError", message |-> "The signal has been aborted"] }

\* the fixed text of 104 / 215
ABORTED == "execution was interrupted"

ok(value) == [ok |-> TRUE, value |-> value]

err(error) == [ok |-> FALSE, error |-> error]

\* the text of an error result that repeats the message of every error
ErrorTextWrong(error) == error.message

\* 101-109 / 212-220: the text of the error result
ErrorText(error) ==
  IF error.name = "AbortError" THEN ABORTED ELSE error.message

\* a catch clause that lets the error go on to the caller
CatchWrong(error) == [kind |-> "throw", error |-> error]

\* catch 99-110 / 210-221: every error becomes an error result
Catch(error) ==
  [kind |-> "return",
   value |-> err([type |-> "STREAM_PROCESSING_ERROR",
                  error |-> ErrorText(error)])]

\* the events of a call up to the await of 82 / 193
StartedEvents(executor, onProcessStart) ==
  SelectSeq(IF executor = "host"
              THEN DefaultExecuteStreaming(TRUE, onProcessStart)
              ELSE DevcontainerExecuteStreaming(TRUE, onProcessStart),
            LAMBDA e : e \in {"spawned", "onProcessStart"})

\* the try block 52-98 / 157-209: spawn, the callback, the await of the exit
\* status together with processStreams, which reads stdout and stderr to
\* their end; thrownAt is where an error is thrown, if anywhere
TryBlock(executor, onProcessStart, thrownAt, error, code) ==
  IF thrownAt = "spawn"
    THEN [events |-> << >>, end |-> [kind |-> "throw", error |-> error]]
  ELSE IF thrownAt = "await"
    THEN [events |-> StartedEvents(executor, onProcessStart),
          end |-> [kind |-> "throw", error |-> error]]
  ELSE [events |-> StartedEvents(executor, onProcessStart)
                     \o << "exited", "stdout", "stderr" >>,
        end |-> [kind |-> "return", value |-> ok([code |-> code])]]

\* executeStreaming 32-110 / 130-221 as a whole: how the call ends
ExecuteStreamingResult(executor, onProcessStart, thrownAt, error, code) ==
  LET body == TryBlock(executor, onProcessStart, thrownAt, error, code)
  IN  [events |-> body.events,
       end |-> IF body.end.kind = "throw" THEN Catch(body.end.error)
               ELSE body.end]

\* one call of executeStreaming, recorded with its inputs
Execute(executor, onProcessStart, thrownAt, error, code) ==
  /\ Len(calls) < MaxCalls
  /\ calls' = Append(calls,
       [executor |-> executor, thrownAt |-> thrownAt,
        thrown |-> IF thrownAt = "never" THEN "none" ELSE error.name,
        result |-> ExecuteStreamingResult(executor, onProcessStart, thrownAt,
                                          error, code)])
  /\ UNCHANGED << persisted, memory, registry, env, history, reports, fault,
                  planMode,
                  stream >>
  /\ UNCHANGED settings
  /\ UNCHANGED meter
  /\ UNCHANGED compression
  /\ UNCHANGED checkout

NextExec ==
  \E executor \in Executors, onProcessStart \in BOOLEAN,
     thrownAt \in {"spawn", "await", "never"}, error \in Errors,
     code \in {0, 1} :
    Execute(executor, onProcessStart, thrownAt, error, code)

SpecExec == Init /\ [][NextExec]_vars

Positioned(events, e) == \E i \in 1 .. Len(events) : events[i] = e

MaxLines == 3

LF == "LF"

\* the lines a subprocess may write, as bytes: one record per line, with
\* the discriminant s (session), a (assistant) or r (result); a truncated
\* record, a stray byte and an empty line are not valid records
Records ==
  { << "{", "s", "}" >>, << "{", "a", "}" >>, << "{", "r", "}" >> }

Noise == { << "{", "a" >>, << "}" >>, << >> }

Outputs ==
  UNION { [1 .. n -> Records \cup Noise] : n \in 0 .. MaxLines }

RECURSIVE Bytes(_)
\* the byte stream of a sequence of lines, each terminated by a line feed
Bytes(lines) ==
  IF lines = << >> THEN << >>
  ELSE Head(lines) \o << LF >> \o Bytes(Tail(lines))

\* a parser that throws on a line that is not a record
ParseLineWrong(line) ==
  IF line \in Records
    THEN [kind |-> "event",
          event |-> [type |-> CASE line[2] = "s" -> "session"
                               [] line[2] = "a" -> "assistant"
                               [] OTHER -> "result"]]
    ELSE [kind |-> "throw"]

\* one terminated line: a record is classified by its discriminant, any
\* other line is dropped
ParseLine(line) ==
  IF line \in Records
    THEN [kind |-> "event",
          event |-> [type |-> CASE line[2] = "s" -> "session"
                               [] line[2] = "a" -> "assistant"
                               [] OTHER -> "result"]]
    ELSE [kind |-> "skip"]

RECURSIVE Scan(_, _, _)
\* the bytes of text read from left to right: line is the line read so far,
\* out the events so far; ends with the unterminated rest, or at the first
\* line whose parse throws
Scan(text, line, out) ==
  IF text = << >> THEN [rest |-> line, events |-> out, failed |-> FALSE]
  ELSE IF Head(text) # LF THEN Scan(Tail(text), Append(line, Head(text)), out)
  ELSE LET parsed == ParseLine(line)
       IN  IF parsed.kind = "throw"
             THEN [rest |-> << >>, events |-> out, failed |-> TRUE]
           ELSE Scan(Tail(text), << >>,
                     IF parsed.kind = "event" THEN Append(out, parsed.event)
                     ELSE out)

\* a parser that parses each chunk on its own
ProcessChunkWrong(carried, chunk) == Scan(chunk, << >>, << >>)

\* one chunk delivery: the carry-over buffer and the chunk are scanned
\* together, the unterminated rest is the new carry-over buffer
ProcessChunk(carried, chunk) == Scan(carried \o chunk, << >>, << >>)

\* a worker that forwards every event to the progress callback
ExtractOutputMessageWrong(event) == << event.type >>

\* what the worker passes to the progress callback for an event: nothing
\* for a result event
ExtractOutputMessage(event) ==
  IF event.type = "result" THEN << >> ELSE << event.type >>

RECURSIVE Notified(_)
\* the progress callbacks of a sequence of events
Notified(evs) ==
  IF evs = << >> THEN << >>
  ELSE ExtractOutputMessage(Head(evs)) \o Notified(Tail(evs))

\* the subprocess starts to write its output
StartStream(lines) ==
  /\ parsing = "idle"
  /\ parsing' = "streaming"
  /\ source' = lines
  /\ input' = Bytes(lines)
  /\ UNCHANGED << buffer, emitted, progress, replies >>
  /\ UNCHANGED << persisted, memory, registry, env, history, reports, fault,
                  planMode,
                  calls >>
  /\ UNCHANGED settings
  /\ UNCHANGED meter
  /\ UNCHANGED compression
  /\ UNCHANGED checkout

\* the next n bytes arrive as one chunk
Feed(n) ==
  /\ parsing = "streaming"
  /\ n \in 1 .. Len(input)
  /\ LET r == ProcessChunk(buffer, SubSeq(input, 1, n))
     IN  /\ buffer' = r.rest
         /\ emitted' = emitted \o r.events
         /\ progress' = progress \o Notified(r.events)
         /\ parsing' = IF r.failed THEN "aborted" ELSE "streaming"
  /\ input' = SubSeq(input, n + 1, Len(input))
  /\ UNCHANGED << source, replies >>
  /\ UNCHANGED << persisted, memory, registry, env, history, reports, fault,
                  planMode,
                  calls >>
  /\ UNCHANGED settings
  /\ UNCHANGED meter
  /\ UNCHANGED compression
  /\ UNCHANGED checkout

\* the stream ends: the invocation replies with the result it has seen
EndStream ==
  /\ parsing = "streaming"
  /\ input = << >>
  /\ parsing' = "done"
  /\ replies' = IF \E i \in 1 .. Len(emitted) : emitted[i].type = "result"
                  THEN << "result" >> ELSE << >>
  /\ UNCHANGED << source, input, buffer, emitted, progress >>
  /\ UNCHANGED << persisted, memory, registry, env, history, reports, fault,
                  planMode,
                  calls >>
  /\ UNCHANGED settings
  /\ UNCHANGED meter
  /\ UNCHANGED compression
  /\ UNCHANGED checkout

NextStream ==
  \/ \E lines \in Outputs : StartStream(lines)
  \/ \E n \in 1 .. Len(input) : Feed(n)
  \/ EndStream

SpecStream == Init /\ [][NextStream]_vars

\* the bytes delivered so far
Delivered == SubSeq(Bytes(source), 1, Len(Bytes(source)) - Len(input))

\* -------------------------------------------------------------------- C25
\* C25: however the stream is split into chunks, the events parsed so far
\* are those of the delivered bytes fed as one chunk, and the carry-over
\* buffer is the unterminated rest of the delivered bytes, which has
\* produced no event yet; at the end of the stream the events are those of
\* the unsplit stream.
C25_ChunkBoundaryInvariance ==
  parsing \in {"streaming", "done"} =>
    /\ emitted = ProcessChunk(<< >>, Delivered).events
    /\ buffer = ProcessChunk(<< >>, Delivered).rest
    /\ parsing = "done" =>
         emitted = ProcessChunk(<< >>, Bytes(source)).events

\* a record has been split inside: its first bytes are carried over, and
\* an earlier record has been parsed
C25_Witness ==
  /\ parsing = "streaming"
  /\ buffer = << "{", "r" >>
  /\ Len(emitted) = 1
  /\ input # << >>

\* -------------------------------------------------------------------- C26
\* C26: a line that is not a record is dropped and stops nothing: the
\* parser is never aborted, and at the end of the stream the events are
\* those of the same stream without its invalid lines.
C26_InvalidLinesDropped ==
  /\ parsing # "aborted"
  /\ parsing = "done" =>
       emitted = ProcessChunk(<< >>,
                  Bytes(SelectSeq(source, LAMBDA l : l \in Records))).events

\* a stream with an invalid line before a record has been parsed to its end
C26_Witness ==
  /\ parsing = "done"
  /\ Len(source) >= 2
  /\ source[1] \in Noise
  /\ source[Len(source)] \in Records
  /\ Len(emitted) >= 1

\* -------------------------------------------------------------------- C27
\* C27: a result event never goes through the progress callback, and one
\* invocation delivers its final reply at most once, exactly once when the
\* stream had a result.
C27_ResultNotInProgress ==
  /\ \A i \in 1 .. Len(progress) : progress[i] # "result"
  /\ Len(replies) <= 1
  /\ parsing = "done" =>
       (replies = << "result" >> <=>
          \E i \in 1 .. Len(emitted) : emitted[i].type = "result")

\* an invocation whose stream had an assistant record and a result has
\* notified the progress of the first and replied with the second
C27_Witness ==
  /\ parsing = "done"
  /\ replies = << "result" >>
  /\ progress = << "assistant" >>
  /\ Len(emitted) = 2

\* -------------------------------------------------------------- plan mode
\* a lookup that finds a worker on every channel
GetWorkerWrong(ch) == "ok"

\* getWorker: the handle (ok), or WORKER_NOT_FOUND
GetWorker(ch) == IF Registered(ch) THEN "ok" ELSE "WORKER_NOT_FOUND"

\* what setPlanMode returns, with the value it has set
PlanReport(result, v) ==
  IF result # "ok" THEN result ELSE IF v THEN "on" ELSE "off"

\* Worker.isPlanMode
isPlanMode(ch) == planMode[ch]

\* Admin.setPlanMode(ch, v): looks the worker up and sets its flag
SetPlanMode(ch, v) ==
  /\ booted
  /\ ops < MaxOps
  /\ ops' = ops + 1
  /\ reply' = Reply("plan", ch, PlanReport(GetWorker(ch), v))
  /\ planMode' = IF GetWorker(ch) = "ok" THEN [planMode EXCEPT ![ch] = v]
                  ELSE planMode
  /\ UNCHANGED << persisted, memory, registry, now, nextMsg, restarts,
                  history, noticed, lastRun, lastEnd, fault, units >>

NextPlan ==
  \/ Listen(TRUE, FALSE)
  \/ \E ch \in Channels : CreateWorker(ch)
  \/ \E ch \in Channels : HandleMessage(ch, "host", TRUE)
  \/ \E x \in tasks : ProcessDone(x)
  \/ \E ch \in Channels : Terminate(ch)
  \/ \E ch \in Channels, v \in BOOLEAN : SetPlanMode(ch, v)

SpecPlan == Init /\ [][NextPlan]_vars

\* the step is a setPlanMode on ch
PlanStep(ch) ==
  /\ reply'.cmd = "plan"
  /\ reply'.ch = ch
  /\ reply' # reply

\* -------------------------------------------------------------------- C28
\* C28: setPlanMode on a channel without a worker fails with
\* WORKER_NOT_FOUND and changes nothing; on a channel with a worker it sets
\* the flag isPlanMode returns and leaves the execution phase, the running
\* invocations and the registry as they are; a new worker starts with the
\* flag off, and no other step changes the flag, so that isPlanMode is the
\* last value set.
C28_PlanModeIsLastValueSet ==
  [][\A ch \in Channels :
       /\ (PlanStep(ch) /\ ~Registered(ch)) =>
            /\ reply'.report = "WORKER_NOT_FOUND"
            /\ UNCHANGED << planMode, persisted, memory, registry >>
       /\ (PlanStep(ch) /\ Registered(ch)) =>
            /\ reply'.report \in {"on", "off"}
            /\ isPlanMode(ch)' = (reply'.report = "on")
            /\ \A c \in Channels \ {ch} : isPlanMode(c)' = isPlanMode(c)
            /\ UNCHANGED << persisted, memory, registry >>
       /\ (StartStep(ch) /\ reply'.report = "created") => ~isPlanMode(ch)'
       /\ (~PlanStep(ch) /\ ~StartStep(ch)) =>
            isPlanMode(ch)' = isPlanMode(ch)]_vars

\* the flag of a worker has been switched on while its invocation runs
C28_Witness ==
  \E ch \in Channels :
    /\ reply = [cmd |-> "plan", ch |-> ch, report |-> "on", nth |-> 1]
    /\ isPlanMode(ch)
    /\ executing[ch] # 0
    /\ Streaming(ch) # {}

\* ------------------------------------------------------ WorkerConfiguration
DEFAULT_MAX_OUTPUT_TOKENS == 25000

MaxSets == 2

MaxEnvLen == 2

\* the token counts tried as arguments
TokenValues == {-1, 0, 1, 40000}

\* the characters of the environment values tried
EnvChars == {"-", "0", "7", "a"}

EnvValues == UNION { [1 .. n -> EnvChars] : n \in 0 .. MaxEnvLen }

\* JavaScript values: a number, NaN, null or undefined
Num(n) == [kind |-> "number", value |-> n]

NaN == [kind |-> "NaN", value |-> 0]

Null == [kind |-> "null", value |-> 0]

Undefined == [kind |-> "undefined", value |-> 0]

\* a || b
Or(a, b) == IF a.kind = "number" /\ a.value # 0 THEN a ELSE b

DigitChars == << "0", "1", "2", "3", "4", "5", "6", "7", "8", "9" >>

IsDigit(c) == \E d \in 1 .. Len(DigitChars) : DigitChars[d] = c

DigitValue(c) == (CHOOSE d \in 1 .. Len(DigitChars) : DigitChars[d] = c) - 1

RECURSIVE LeadingDigits(_, _)
\* the value of the digits str starts with, after the digits of value acc
LeadingDigits(str, acc) ==
  IF str = << >> \/ ~IsDigit(Head(str)) THEN acc
  ELSE LeadingDigits(Tail(str),
                     Len(DigitChars) * acc + DigitValue(Head(str)))

\* parseInt(str, 10): an optional sign and the leading digits; NaN when
\* there is no digit
parseInt(str) ==
  LET negative == str # << >> /\ Head(str) = "-"
      digits == IF negative THEN Tail(str) ELSE str
  IN  IF digits = << >> \/ ~IsDigit(Head(digits)) THEN NaN
      ELSE Num((IF negative THEN -1 ELSE 1) * LeadingDigits(digits, 0))

RECURSIVE DigitsOf(_)
\* the decimal digits of a natural number
DigitsOf(n) ==
  IF n < Len(DigitChars) THEN << DigitChars[n + 1] >>
  ELSE DigitsOf(n \div Len(DigitChars))
         \o << DigitChars[(n % Len(DigitChars)) + 1] >>

\* Number.prototype.toString of an integer
toString(n) == IF n < 0 THEN << "-" >> \o DigitsOf(-n) ELSE DigitsOf(n)

\* getMaxOutputTokensFromEnv 189-198
getMaxOutputTokensFromEnv ==
  IF environment.set /\ environment.value # << >>
    THEN LET parsed == parseInt(environment.value)
         IN  IF parsed.kind = "number" /\ parsed.value > 0 THEN parsed
             ELSE Null
    ELSE Null

\* Deno.env.set before the object is made
SetEnv(value) ==
  /\ ~config.made
  /\ ~environment.set
  /\ environment' = [set |-> TRUE, value |-> value]
  /\ UNCHANGED << persisted, memory, registry, env, history, reports, fault,
                  planMode, calls, stream, config >>
  /\ UNCHANGED meter
  /\ UNCHANGED compression
  /\ UNCHANGED checkout

\* constructor 126-142
Construct(maxOutputTokens) ==
  /\ ~config.made
  /\ config' = [config EXCEPT
       !.made = TRUE,
       !.maxOutputTokens =
         Or(maxOutputTokens,
            Or(getMaxOutputTokensFromEnv,
               Num(DEFAULT_MAX_OUTPUT_TOKENS))).value]
  /\ UNCHANGED << persisted, memory, registry, env, history, reports, fault,
                  planMode, calls, stream, environment >>
  /\ UNCHANGED meter
  /\ UNCHANGED compression
  /\ UNCHANGED checkout

\* setMaxOutputTokens 203-207
SetMaxOutputTokens(tokens) ==
  /\ config.made
  /\ config.calls < MaxSets
  /\ config' = [config EXCEPT
       !.maxOutputTokens = IF tokens > 0 THEN tokens ELSE @,
       !.calls = @ + 1,
       !.lastSet = [tokens |-> tokens, before |-> config.maxOutputTokens]]
  /\ UNCHANGED << persisted, memory, registry, env, history, reports, fault,
                  planMode, calls, stream, environment >>
  /\ UNCHANGED meter
  /\ UNCHANGED compression
  /\ UNCHANGED checkout

\* buildClaudeEnv 254-261: the value of CLAUDE_CODE_MAX_OUTPUT_TOKENS
buildClaudeEnv == toString(config.maxOutputTokens)

NextConfig ==
  \/ \E value \in EnvValues : SetEnv(value)
  \/ \E maxOutputTokens \in {Undefined} \cup {Num(n) : n \in TokenValues} :
       Construct(maxOutputTokens)
  \/ \E tokens \in TokenValues : SetMaxOutputTokens(tokens)

SpecConfig == Init /\ [][NextConfig]_vars

\* -------------------------------------------------------------------- C29
\* C29: the max-output-token limit of a WorkerConfiguration is positive
\* after construction with any argument and any environment value and
\* after any setMaxOutputTokens calls, CLAUDE_CODE_MAX_OUTPUT_TOKENS of
\* buildClaudeEnv parses to an integer greater than 0, and a
\* setMaxOutputTokens call with a value <= 0 leaves the limit unchanged.
C29_LimitAlwaysPositive ==
  config.made =>
    /\ config.maxOutputTokens > 0
    /\ parseInt(buildClaudeEnv).kind = "number"
    /\ parseInt(buildClaudeEnv).value > 0
    /\ (config.calls > 0 /\ config.lastSet.tokens <= 0) =>
         config.maxOutputTokens = config.lastSet.before

\* -------------------------------------------------------- TokenUsageTracker
TOKEN_BASE == 100000

RESET_INTERVAL_HOURS == 24

MaxUses == 3

MaxClock == 48

ClockStep == 12

\* the token counts tried
TokenCounts == {0, 500, 30000}

\* hours of a day; the clock counts the hours since a midnight UTC
DayHours == 24

\* the offsets of the local time zone from UTC, in hours
Offsets == {-12, 0, 9, 14}

\* the last midnight UTC at or before t
MidnightUTC(t) == t - (t % DayHours)

\* initializeResetTime 26-36: the year, month and day of the UTC date, read
\* by the Date constructor as a local date: the local midnight of that
\* date, which is the midnight UTC less the offset of the time zone
initializeResetTime(offset) == MidnightUTC(clock) - offset

\* getNextResetTime 65-69
getNextResetTime == tracker.lastResetTime + RESET_INTERVAL_HOURS

\* a check that starts a new interval and keeps the count
checkAndResetIfNeededWrong(t) ==
  IF clock - t.lastResetTime >= RESET_INTERVAL_HOURS
    THEN [t EXCEPT !.lastResetTime = clock]
    ELSE t

\* checkAndResetIfNeeded 50-60
checkAndResetIfNeeded(t) ==
  IF clock - t.lastResetTime >= RESET_INTERVAL_HOURS
    THEN [t EXCEPT !.currentUsage = 0, !.lastResetTime = clock]
    ELSE t

\* Math.round of a non-negative quotient n / d
Round(n, d) == (2 * n + d) \div (2 * d)

\* getCurrentUsage 109-112 called now
getCurrentUsage == checkAndResetIfNeeded(tracker).currentUsage

\* getUsagePercentage 102-104, getUsageInfo 74-91 called now
getUsagePercentage ==
  Round(checkAndResetIfNeeded(tracker).currentUsage * 100, TOKEN_BASE)

\* the interval of the tracker has run out: its next check resets the count
Expired == clock - tracker.lastResetTime >= RESET_INTERVAL_HOURS

\* constructor 19-21
NewTracker(offset) ==
  /\ ~tracker.made
  /\ tracker' = [tracker EXCEPT !.made = TRUE,
                                !.lastResetTime = initializeResetTime(offset)]
  /\ added' = 0
  /\ UNCHANGED clock
  /\ UNCHANGED << persisted, memory, registry, env, history, reports, fault,
                  planMode, calls, stream, settings >>
  /\ UNCHANGED compression
  /\ UNCHANGED checkout

\* time passes
Advance ==
  /\ clock < MaxClock
  /\ clock' = clock + ClockStep
  /\ UNCHANGED << tracker, added >>
  /\ UNCHANGED << persisted, memory, registry, env, history, reports, fault,
                  planMode, calls, stream, settings >>
  /\ UNCHANGED compression
  /\ UNCHANGED checkout

\* addTokenUsage 42-45
AddTokenUsage(inputTokens, outputTokens) ==
  /\ tracker.made
  /\ tracker.uses < MaxUses
  /\ tracker' = [checkAndResetIfNeeded(tracker) EXCEPT
       !.currentUsage = @ + inputTokens + outputTokens,
       !.uses = @ + 1,
       !.last = "add"]
  /\ added' = (IF Expired THEN 0 ELSE added) + inputTokens + outputTokens
  /\ UNCHANGED clock
  /\ UNCHANGED << persisted, memory, registry, env, history, reports, fault,
                  planMode, calls, stream, settings >>
  /\ UNCHANGED compression
  /\ UNCHANGED checkout

\* getCurrentUsage 109-112, getUsagePercentage, getUsageInfo: a read, which
\* checks the interval first
ReadUsage ==
  /\ tracker.made
  /\ tracker.uses < MaxUses
  /\ tracker' = [checkAndResetIfNeeded(tracker) EXCEPT
       !.uses = @ + 1, !.last = "read"]
  /\ added' = IF Expired THEN 0 ELSE added
  /\ UNCHANGED clock
  /\ UNCHANGED << persisted, memory, registry, env, history, reports, fault,
                  planMode, calls, stream, settings >>
  /\ UNCHANGED compression
  /\ UNCHANGED checkout

\* reset 117-120
ResetUsage ==
  /\ tracker.made
  /\ tracker.uses < MaxUses
  /\ tracker' = [tracker EXCEPT
       !.currentUsage = 0, !.lastResetTime = clock,
       !.uses = @ + 1, !.last = "reset"]
  /\ added' = 0
  /\ UNCHANGED clock
  /\ UNCHANGED << persisted, memory, registry, env, history, reports, fault,
                  planMode, calls, stream, settings >>
  /\ UNCHANGED compression
  /\ UNCHANGED checkout

NextTracker ==
  \/ \E offset \in Offsets : NewTracker(offset)
  \/ Advance
  \/ \E inputTokens \in TokenCounts, outputTokens \in TokenCounts :
       AddTokenUsage(inputTokens, outputTokens)
  \/ ReadUsage
  \/ ResetUsage

SpecTracker == Init /\ [][NextTracker]_vars

\* -------------------------------------------------------------------- C30
\* C30: getCurrentUsage returns the sum of inputTokens + outputTokens of the
\* addTokenUsage calls since the last reset, manual or automatic (none when
\* the 24-hour interval has run out and the call itself resets), it
\* returns 0 right after reset(), and getUsagePercentage is that sum divided
\* by 100000, times 100, rounded.
C30_UsageIsSumSinceReset ==
  tracker.made =>
    /\ getCurrentUsage = (IF Expired THEN 0 ELSE added)
    /\ tracker.last = "reset" => getCurrentUsage = 0
    /\ getUsagePercentage = Round(100 * (IF Expired THEN 0 ELSE added),
                                  TOKEN_BASE)

\* tokens were added in an interval that has run out, and again after it:
\* only the second addition counts
C30_Witness ==
  /\ tracker.made
  /\ tracker.last = "add"
  /\ tracker.uses = 2
  /\ added = 500
  /\ getCurrentUsage = 500
  /\ getUsagePercentage = 1
  /\ tracker.lastResetTime = 24

\* -------------------------------------------------------------------- C31
\* C31: the tracker resets its count at midnight UTC: the start of its
\* interval, set by the constructor and by every automatic reset, is a
\* midnight UTC, and so is the next reset time it reports (the start of the
\* interval plus 24 hours); a manual reset() is left aside.
C31_ResetsAtMidnightUTC ==
  (tracker.made /\ tracker.last # "reset") =>
    /\ tracker.lastResetTime % DayHours = 0
    /\ getNextResetTime % DayHours = 0

\* -------------------------------------------------------- ContextCompressor
AUTO_COMPRESS_THRESHOLD == 180000

KEEP_RECENT_MESSAGES == 10

\* estimateTokenCount (token-counter.ts 16): characters per token
CharsPerToken == 4

MaxFill == 12

MaxTail == 2

\* Date.now() of the call, later than every timestamp of the session
DateNow == 1000

\* the lines of a session, by the number of characters of their content:
\* a long message with a timestamp, which fills the session, a short
\* message with and one without a timestamp, a line that is not JSON, and
\* one message that is over the threshold by itself
Filler == [kind |-> "user", len |-> 80000, stamped |-> TRUE]

Shapes ==
  { [kind |-> "user", len |-> 31, stamped |-> TRUE],
    [kind |-> "assistant", len |-> 31, stamped |-> FALSE],
    [kind |-> "invalid", len |-> 0, stamped |-> FALSE],
    [kind |-> "user", len |-> 800000, stamped |-> TRUE] }

\* the lines of a session carry the timestamps of their positions
Stamped(shapes) ==
  [i \in 1 .. Len(shapes) |->
     [kind |-> shapes[i].kind, len |-> shapes[i].len,
      timestamp |-> IF shapes[i].stamped THEN i ELSE 0]]

Sessions ==
  { Stamped(head \o [i \in 1 .. n |-> Filler] \o tail) :
      head \in UNION { [1 .. k -> Shapes] : k \in 0 .. 1 },
      n \in 0 .. MaxFill,
      tail \in UNION { [1 .. k -> Shapes] : k \in 0 .. MaxTail } }

\* Math.ceil(n / d)
Ceil(n, d) == (n + d - 1) \div d

\* estimateTokenCount (token-counter.ts 10-17) of a text of len characters
estimateTokenCount(len) == Ceil(len, CharsPerToken)

RECURSIVE estimateTokenCountFromSession(_)
\* estimateTokenCountFromSession (token-counter.ts 29-57): the messages
\* with a content count, other lines and lines that are not JSON do not
estimateTokenCountFromSession(lines) ==
  IF lines = << >> THEN 0
  ELSE (IF Head(lines).kind \in {"user", "assistant"} /\ Head(lines).len > 0
          THEN estimateTokenCount(Head(lines).len) ELSE 0)
       + estimateTokenCountFromSession(Tail(lines))

\* 126-137: the timestamp of a parsed line, Date.now() when it has none;
\* a line that is not JSON has no timestamp, which the comparison of 140
\* takes as 0
SortKey(line) ==
  IF line.kind = "invalid" THEN 0
  ELSE IF line.timestamp # 0 THEN line.timestamp
  ELSE DateNow

RECURSIVE Inserted(_, _)
\* m put behind the last message of sorted whose key is not larger
Inserted(sorted, m) ==
  IF sorted = << >> THEN << m >>
  ELSE IF SortKey(sorted[Len(sorted)]) <= SortKey(m) THEN Append(sorted, m)
  ELSE Append(Inserted(SubSeq(sorted, 1, Len(sorted) - 1), m),
              sorted[Len(sorted)])

RECURSIVE Sorted(_)
\* messages.sort 140: a stable sort by key
Sorted(messages) ==
  IF messages = << >> THEN << >>
  ELSE Inserted(Sorted(SubSeq(messages, 1, Len(messages) - 1)),
                messages[Len(messages)])

\* messages.slice(-n)
Recent(messages, n) ==
  SubSeq(messages, IF Len(messages) > n THEN Len(messages) - n + 1 ELSE 1,
         Len(messages))

\* messages.slice(0, -n)
Older(messages, n) ==
  SubSeq(messages, 1, IF Len(messages) > n THEN Len(messages) - n ELSE 0)

RECURSIVE Joined(_, _)
\* the length of texts.join(separator), separator given by its length
Joined(lens, separator) ==
  IF lens = << >> THEN 0
  ELSE IF Len(lens) = 1 THEN lens[1]
  ELSE lens[1] + separator + Joined(Tail(lens), separator)

\* the lengths of the first n contents of the messages of a role
FirstContents(messages, role, n) ==
  LET all == SelectSeq(messages, LAMBDA m : m.kind = role)
  IN  [i \in 1 .. (IF Len(all) < n THEN Len(all) ELSE n) |-> all[i].len]

\* 220-229: the two labelled parts of the summary, each with the first
\* three contents joined by "; "
SummaryParts(older) ==
  (IF FirstContents(older, "user", 3) = << >> THEN << >>
   ELSE << 11 + Joined(FirstContents(older, "user", 3), 2) >>)
  \o (IF FirstContents(older, "assistant", 3) = << >> THEN << >>
      ELSE << 13 + Joined(FirstContents(older, "assistant", 3), 2) >>)

\* createSummaryMessage 175-251: a message whose content is the header
\* with the number of older messages (25 characters and the digits of the
\* number) and the parts, each on a line of its own; without parts the
\* text ends with the line feed of the header, which the estimate trims
createSummaryMessage(older) ==
  [kind |-> "assistant",
   len |-> 25 + Len(DigitsOf(Len(older)))
             + (IF SummaryParts(older) = << >> THEN 0
                ELSE 1 + Joined(SummaryParts(older), 1)),
   timestamp |-> DateNow]

\* compressSession 109-170
compressSession(session) ==
  LET originalTokens == estimateTokenCountFromSession(session)
      messages == Sorted(session)
      compressedContent ==
        << createSummaryMessage(Older(messages, KEEP_RECENT_MESSAGES)) >>
          \o Recent(messages, KEEP_RECENT_MESSAGES)
  IN  IF originalTokens <= AUTO_COMPRESS_THRESHOLD
        THEN [called |-> TRUE, session |-> session,
              compressedContent |-> session,
              originalTokens |-> originalTokens,
              compressedTokens |-> originalTokens,
              compressionRatio |-> << 1, 1 >>,
              wasCompressed |-> FALSE]
        ELSE [called |-> TRUE, session |-> session,
              compressedContent |-> compressedContent,
              originalTokens |-> originalTokens,
              compressedTokens |->
                estimateTokenCountFromSession(compressedContent),
              compressionRatio |->
                << estimateTokenCountFromSession(compressedContent),
                   originalTokens >>,
              wasCompressed |-> TRUE]

\* one call of compressSession
Compress(session) ==
  /\ ~compression.called
  /\ compression' = compressSession(session)
  /\ UNCHANGED << persisted, memory, registry, env, history, reports, fault,
                  planMode, calls, stream, settings, meter >>
  /\ UNCHANGED checkout

NextCompress == \E session \in Sessions : Compress(session)

SpecCompress == Init /\ [][NextCompress]_vars

\* -------------------------------------------------------------------- C32
\* C32: a result with wasCompressed = true has fewer compressed than
\* original tokens (a ratio below 1); a session at or below the threshold
\* of 180000 estimated tokens is returned as it is, with wasCompressed =
\* false and the ratio 1.
C32_CompressedIsSmaller ==
  compression.called =>
    /\ compression.wasCompressed =>
         /\ compression.compressedTokens < compression.originalTokens
         /\ compression.compressionRatio[1] < compression.compressionRatio[2]
    /\ estimateTokenCountFromSession(compression.session)
           <= AUTO_COMPRESS_THRESHOLD =>
         /\ ~compression.wasCompressed
         /\ compression.compressedContent = compression.session
         /\ compression.compressionRatio = << 1, 1 >>

\* -------------------------------------------------------------------- C33
\* C33: a compressed session keeps its last KEEP_RECENT_MESSAGES lines, the
\* last line among them whatever it is, as they were and in their order,
\* behind the summary line.
C33_RecentLinesKept ==
  (compression.called /\ compression.wasCompressed) =>
    Tail(compression.compressedContent)
      = Recent(compression.session, KEEP_RECENT_MESSAGES)

\* ------------------------------------------------------- ensureRepository
MaxCommits == 2

DEFAULT_BRANCH == "main"

\* the remote default branch gets a commit
Push ==
  /\ clone.remote < MaxCommits
  /\ clone' = [clone EXCEPT !.remote = @ + 1]
  /\ UNCHANGED ensured
  /\ UNCHANGED << persisted, memory, registry, env, history, reports, fault,
                  planMode, calls, stream, settings, meter, compression >>

\* work in the clone: a tracked file is modified, or a file is added,
\* and nothing is committed
Edit(change) ==
  /\ clone.exists
  /\ clone.tree = "clean"
  /\ clone' = [clone EXCEPT !.tree = change]
  /\ UNCHANGED ensured
  /\ UNCHANGED << persisted, memory, registry, env, history, reports, fault,
                  planMode, calls, stream, settings, meter, compression >>

\* work in the clone: another branch is checked out
Switch ==
  /\ clone.exists
  /\ clone.branch = DEFAULT_BRANCH
  /\ clone' = [clone EXCEPT !.branch = "feature"]
  /\ UNCHANGED ensured
  /\ UNCHANGED << persisted, memory, registry, env, history, reports, fault,
                  planMode, calls, stream, settings, meter, compression >>

\* git reset --hard origin/main (280-291): the head and the tracked files
\* are those of origin/main, files git does not track stay
ResetHard(c) ==
  [c EXCEPT !.head = c.origin,
            !.tree = IF c.tree = "modified" THEN "clean" ELSE c.tree]

\* updateRepositoryWithGh 243-292: git fetch, git checkout of the default
\* branch when another one is checked out (which git refuses when it would
\* overwrite a modified file), git reset --hard
updateRepositoryWithGh(c, fetched, conflict) ==
  IF ~fetched THEN [clone |-> c, result |-> "git fetch"]
  ELSE LET f == [c EXCEPT !.origin = c.remote]
       IN  IF f.branch # DEFAULT_BRANCH /\ f.tree = "modified" /\ conflict
             THEN [clone |-> f, result |-> "git checkout"]
           ELSE [clone |-> ResetHard([f EXCEPT !.branch = DEFAULT_BRANCH]),
                 result |-> "ok"]

\* ensureRepository 97-140: an existing directory is updated, a missing one
\* is cloned
EnsureRepository(fetched, conflict, cloned) ==
  /\ IF clone.exists
       THEN LET u == updateRepositoryWithGh(clone, fetched, conflict)
            IN  /\ clone' = u.clone
                /\ ensured' = [called |-> TRUE, result |-> u.result,
                                wasUpdated |-> u.result = "ok",
                                before |-> clone.tree, after |-> u.clone.tree]
       ELSE /\ clone' = IF cloned
                           THEN [clone EXCEPT !.exists = TRUE,
                                              !.head = clone.remote,
                                              !.origin = clone.remote]
                           ELSE clone
            /\ ensured' = [called |-> TRUE,
                            result |-> IF cloned THEN "ok" ELSE "gh repo clone",
                            wasUpdated |-> FALSE,
                            before |-> "clean", after |-> "clean"]
  /\ UNCHANGED << persisted, memory, registry, env, history, reports, fault,
                  planMode, calls, stream, settings, meter, compression >>

NextGit ==
  \/ Push
  \/ \E change \in {"modified", "untracked"} : Edit(change)
  \/ Switch
  \/ \E fetched \in BOOLEAN, conflict \in BOOLEAN, cloned \in BOOLEAN :
       EnsureRepository(fetched, conflict, cloned)

SpecGit == Init /\ [][NextGit]_vars

\* -------------------------------------------------------------------- C34
\* C34: ensureRepository on an existing clone whose working tree has
\* uncommitted changes skips the update: it does not report the clone as
\* updated and the changes are there afterwards.
C34_UpdateSkippedWhenDirty ==
  (ensured.called /\ ensured.before # "clean") =>
    /\ ~ensured.wasUpdated
    /\ ensured.after = ensured.before

\* ------------------------------------------------------ auto-resume alone
\* the program with the operations of the auto-resume cycle only: messages,
\* the button, timer firings, restarts and the restore; nobody calls
\* clearAutoResumeTimer
NextResume ==
  \/ Tick
  \/ Crash
  \/ Listen(TRUE, FALSE)
  \/ \E ch \in Channels : CreateWorker(ch)
  \/ \E ch \in Channels : HandleMessage(ch, "host", TRUE)
  \/ \E ch \in Channels, autoResume \in BOOLEAN : PressButton(ch, autoResume)
  \/ \E tm \in timers : TimerFire(tm)
  \/ \E x \in tasks : TimerFinally(x)
  \/ \E x \in tasks : RouteCheck(x, "host", TRUE)
  \/ \E x \in tasks : QueueLoad(x)
  \/ \E x \in tasks : QueueSave(x)
  \/ \E x \in tasks : ProcessDone(x)
  \/ \E x \in tasks : ProcessRateLimited(x)
  \/ \E x \in tasks : SaveRateLimitSave(x, TRUE)
  \/ \E x \in tasks : SaveRateLimitReturn(x, TRUE)
  \/ \E x \in tasks : ButtonSave(x)
  \/ \E x \in tasks : ButtonSchedule(x, TRUE)
  \/ \E x \in tasks : ExecSave1(x, TRUE)
  \/ \E x \in tasks : ExecSave2(x)
  \/ \E x \in tasks : RestoreAudit(x, TRUE, FALSE)

SpecResume == Init /\ [][NextResume]_vars

\* an executeAutoResume for ch is in progress, its replay included
Resuming(ch) ==
  \E x \in tasks : /\ x.ch = ch
                   /\ x.kind \in {"timer", "restore"}
                   /\ x.pc \notin {"e_skip", "e_ret", "r_audit", "r_catch"}

\* a call that will arm the timer of ch has saved and not yet armed it: the
\* button handler between 122 and 144, or the restore loop on its way
Arming(ch) ==
  \E x \in tasks : x.kind = "restore" \/ (x.ch = ch /\ x.pc = "b_sched")

\* -------------------------------------------------------------------- C35
\* C35: once the program is up and no call is between its save and its
\* scheduleAutoResume, every channel whose persisted state is active, has a
\* rate-limit timestamp and has auto-resume enabled has an auto-resume timer
\* pending or an executeAutoResume in progress.
C35_LimitedChannelHasResume ==
  booted =>
    \A ch \in Channels :
      (Eligible(ws[ch]) /\ ~Arming(ch)) =>
        (PendingTimers(ch) # {} \/ Resuming(ch))

\* -------------------------------------------------------------------- C36
\* C36: no message id is handed to the auto-resume callback twice.
C36_ReplayedAtMostOnce ==
  \A i \in 1 .. Len(replayLog), j \in 1 .. Len(replayLog) :
    replayLog[i][2] = replayLog[j][2] => i = j

\* -------------------------------------------------------------------- C37
\* the workers the restore loop of this step goes on with: all of them in
\* the step that starts the program, the rest in a later step
RestoreTodo ==
  IF ~booted /\ booted' THEN RateLimitWorkers(NumChannels)
  ELSE IF \E x \in tasks : Steps(x) /\ x.kind = "restore" /\ booted'
                             /\ x.pc \in {"e_skip", "e_ret", "r_audit",
                                          "r_catch"}
         THEN Tail((CHOOSE x \in tasks : Steps(x) /\ x.kind = "restore").todo)
         ELSE << >>

\* C37: a step of executeAutoResume, started by a timer or by the restore,
\* that clears the persisted rate-limit timestamp t of a channel is taken at
\* or after t + 5 minutes; a restore step that finds the resume time of its
\* next worker in the future arms a timer for exactly that resume time and
\* changes no persisted state and replays nothing.
C37_NeverResumedEarly ==
  [][/\ \A x \in tasks :
          (Steps(x) /\ x.pc = "e_save1" /\ booted'
             /\ Truthy(ws[x.ch].ts) /\ ~Truthy(ws'[x.ch].ts)) =>
            now >= ResumeTime(ws[x.ch].ts)
     /\ (RestoreTodo # << >> /\ ~Overdue(Head(RestoreTodo).ts, now)) =>
          /\ \E tm \in timers' \ timers :
               /\ tm.ch = Head(RestoreTodo).ch
               /\ tm.fireAt = ResumeTime(Head(RestoreTodo).ts)
               /\ tm.fireAt = now + Max(0, ResumeTime(Head(RestoreTodo).ts) - now)
          /\ ws' = ws
          /\ replayLog' = replayLog]_vars

\* -------------------------------------------------------------------- C38
\* the step is one of restoreRateLimitTimers: the start of the program, which
\* runs it up to its first worker, or a step of the call it made
RestoreStep ==
  /\ booted'
  /\ reply' = reply
  /\ \/ ~booted
     \/ \E x \in tasks : Steps(x) /\ x.kind = "restore"

\* the persisted worker is archived, or its auto-resume was disabled
Excluded(worker) == worker.status = "archived" \/ worker.auto = "off"

\* C38: no step of restoreRateLimitTimers arms a timer for, changes the
\* persisted state of, or replays a message of a channel whose persisted
\* worker is archived or has auto-resume disabled.
C38_RestoreOnlyEligible ==
  [][RestoreStep =>
       \A ch \in Channels :
         Excluded(ws[ch]) =>
           /\ ws'[ch] = ws[ch]
           /\ \A tm \in timers' \ timers : tm.ch # ch
           /\ replayLog' # replayLog =>
                replayLog'[Len(replayLog')][1] # ch]_vars

\* ------------------------------------------------- a restore that may fail
\* the auto-resume cycle with a getAllWorkerStates and a restoreRateLimitTimer
\* that may throw
NextRestore ==
  \/ Tick
  \/ Crash
  \/ \E listed \in BOOLEAN, thrown \in BOOLEAN : Listen(listed, thrown)
  \/ \E ch \in Channels : CreateWorker(ch)
  \/ \E ch \in Channels : HandleMessage(ch, "host", TRUE)
  \/ \E ch \in Channels, autoResume \in BOOLEAN : PressButton(ch, autoResume)
  \/ \E tm \in timers : TimerFire(tm)
  \/ \E x \in tasks : TimerFinally(x)
  \/ \E x \in tasks : RouteCheck(x, "host", TRUE)
  \/ \E x \in tasks : QueueLoad(x)
  \/ \E x \in tasks : QueueSave(x)
  \/ \E x \in tasks : ProcessDone(x)
  \/ \E x \in tasks : ProcessRateLimited(x)
  \/ \E x \in tasks : SaveRateLimitSave(x, TRUE)
  \/ \E x \in tasks : SaveRateLimitReturn(x, TRUE)
  \/ \E x \in tasks : ButtonSave(x)
  \/ \E x \in tasks : ButtonSchedule(x, TRUE)
  \/ \E x \in tasks : ExecSave1(x, TRUE)
  \/ \E x \in tasks : ExecSave2(x)
  \/ \E x \in tasks, thrown \in BOOLEAN : RestoreAudit(x, TRUE, thrown)
  \/ \E x \in tasks, thrown \in BOOLEAN : RestoreCatch(x, thrown)

SpecRestore == Init /\ [][NextRestore]_vars

\* -------------------------------------------------------------------- C39
\* C39: restoreRateLimitTimers never ends by throwing, and every step of its
\* loop deals with the next eligible worker of its list whatever happened
\* to the workers before it: when restoreRateLimitTimer throws for the
\* worker the failure is logged, nothing is changed and the loop stays on
\* its way to the worker after it; otherwise an overdue worker has its
\* executeAutoResume started and any other has its timer armed.
C39_RestoreIsBestEffort ==
  [][/\ \A y \in tasks' : y.pc # "thrown"
     /\ (RestoreTodo # << >> /\ fault' # "list") =>
          IF fault' = "restore"
            THEN /\ \E y \in tasks' : /\ y.kind = "restore"
                                      /\ y.pc = "r_catch"
                                      /\ y.flag
                                      /\ y.todo = RestoreTodo
                 /\ timers' = timers
                 /\ ws' = ws
          ELSE IF Overdue(Head(RestoreTodo).ts, now)
            THEN \E y \in tasks' : /\ y.kind = "restore"
                                   /\ y.pc \in {"e_save1", "e_skip"}
                                   /\ y.ch = Head(RestoreTodo).ch
                                   /\ y.todo = RestoreTodo
          ELSE /\ timers' = ScheduledTimers(Head(RestoreTodo).ch,
                                            Head(RestoreTodo).ts)
               /\ \E y \in tasks' : /\ y.kind = "restore"
                                     /\ y.pc = "r_audit"
                                     /\ y.ch = Head(RestoreTodo).ch
                                     /\ y.todo = RestoreTodo]_vars

\* the restore of the first worker has thrown and the second worker has its
\* timer armed, or its overdue resume started, by the same restore
C39_Witness ==
  \E x \in tasks : /\ x.kind = "restore"
                   /\ x.flag
                   /\ x.ch = NumChannels
                   /\ x.pc \in {"r_audit", "e_save1"}
                   /\ x.pc = "r_audit" => PendingTimers(x.ch) # {}

\* -------------------------------------------------------------------- C40
\* C40: whenever the program is up the auto-resume callback is registered,
\* from the very step that starts restoreActiveThreads on; so every step of
\* executeAutoResume that empties a non-empty persisted queue finds the
\* callback and hands it the first message of that queue.
C40_CallbackBeforeRestore ==
  [][/\ booted' => onAutoResumeMessage'
     /\ \A x \in tasks :
          (Steps(x) /\ x.pc = "e_save2" /\ booted') =>
            /\ onAutoResumeMessage
            /\ replayLog' = Replayed(replayLog, x.ch, x.ws.queue)]_vars

\* an overdue resume executed by the restore has found a queue and handed
\* its first message to the callback
C40_Witness ==
  \E x \in tasks : /\ x.kind = "restore"
                   /\ x.pc = "check"
                   /\ x.msg # 0
                   /\ Len(replayLog) > 0
                   /\ replayLog[Len(replayLog)] = << x.ch, x.msg >>

====
